---- MODULE Spec2Model ----
(***************************************************************************)
(* Timeline Engine of the Fable backend (backend/app/services/timeline.py) *)
(* as a state machine: the marker / operation / snapshot tables, the       *)
(* canonical entity / relation tables, the replay that projects the world  *)
(* state at a marker, and the snapshot cache built from it.                *)
(*                                                                         *)
(* Conventions                                                             *)
(*   - a Python dict keyed by id that is iterated (entity_map,             *)
(*     relation_map) is a sequence of records in insertion order; a dict   *)
(*     that is only looked up (payload, *_exists_map) is a function whose  *)
(*     DOMAIN is its key set;                                              *)
(*   - None is the string "None"; an Optional[float] is <<>> or <<v>>;     *)
(*   - floats (sort_key, date_sort_value) are integers;                    *)
(*   - a datetime is <<"dt", t>>, its ISO-8601 text is <<"iso", t>>, where *)
(*     t is the logical time of the call that produced it;                 *)
(*   - a JSON text is <<"json", value>>.                                   *)
(***************************************************************************)
EXTENDS Integers, Sequences, FiniteSets, TLC

VARIABLES
    markers,      \* table timeline_markers: set of rows
    operations,   \* table timeline_operations: set of rows
    snapshots,    \* table timeline_snapshots: sequence of rows (rowid order)
    entities,     \* canonical table entities: set of rows
    relations,    \* canonical table relations: set of rows
    clock,        \* logical time: what _now() returns during the next call
    response,     \* the last call: its name, what it returned, and its request
                  \* body where a claim speaks of it
    calls         \* the calls in flight: each concurrent writer's position and
                  \* local variables; <<>> where calls run one at a time

vars == <<markers, operations, snapshots, entities, relations, clock, response, calls>>

NoCalls == <<>>
\* a call that runs from start to end with no other call in flight
Sequential == UNCHANGED calls

\* ------------------------------------------------------------------ bounds
MaxMarkers == 2     \* markers stored at once
MaxOps == 2         \* operations stored at once
MaxClock == 2       \* writing calls in one behaviour
MaxLogOps == 3      \* operations stored at once in the replay specification
MaxOrderMarkers == 3  \* markers stored at once in the marker-ordering specification
MaxOrderClock == 3    \* writing calls in one behaviour of that specification
MaxWriteMarkers == 2   \* markers stored at once in the write-boundary specification
MaxWriteOps == 3       \* operations stored at once in that specification
MaxWriteClock == 3     \* writing calls in one behaviour of that specification
MaxWorldsMarkers == 3  \* markers stored at once in the two-world specification
MaxWorldsOps == 3      \* operations stored at once in that specification
MaxWorldsClock == 3    \* the clock of the last writing call of that specification
MaxCorruptClock == 3   \* the clock of the last snapshot write over damaged snapshots
MaxCacheClock == 4     \* the clock of the last write of the specification of the other writers
MaxCacheOps == 3       \* operations stored at once in that specification

\* ------------------------------------------------------------- id universes
MarkerIdPool == <<"m1", "m2", "m3", "m4", "m5">>
OpIdPool == <<"o1", "o2", "o3", "o4", "o5", "o6">>
EntityIdPool == <<"e1", "e2", "e3">>
RelationIdPool == <<"r1", "r2">>

Range(s) == {s[i] : i \in 1..Len(s)}

\* rank of a string in the ascending text order SQLite and Python use
TextOrder == MarkerIdPool \o OpIdPool \o EntityIdPool \o RelationIdPool
             \o <<"Aldric", "Brina", "Cyra", "aldric", "brina", "cyra">>
TextRank(s) == CHOOSE i \in 1..Len(TextOrder) : TextOrder[i] = s

None == "None"
NoFloat == <<>>
\* None returned where a row is expected
NoRow == <<>>
Float(v) == <<v>>

\* ------------------------------------------------------------ small helpers
\* bool(v) of a JSON scalar or an Optional[str]
Truthy(v) == v \notin {None, ""}

\* dict.get(key, default) and dict.get(key)
DictGet(d, k, default) == IF k \in DOMAIN d THEN d[k] ELSE default
PayloadGet(d, k) == DictGet(d, k, None)

\* dict[key] = value
DictSet(d, k, v) == [x \in DOMAIN d \cup {k} |-> IF x = k THEN v ELSE d[x]]

\* position of the record with this id in an insertion-ordered dict, 0 if none
IndexOf(map, id) ==
    IF \E i \in 1..Len(map) : map[i].id = id
    THEN CHOOSE i \in 1..Len(map) : map[i].id = id
    ELSE 0

InMap(map, id) == \E i \in 1..Len(map) : map[i].id = id

\* a stable sort, as list.sort(key=...) is: less is the set of the pairs <<a, b>>
\* with key(a) < key(b)
StableSort(s, less) ==
    LET n == Len(s)
        before(i, j) == <<s[i], s[j]>> \in less \/ (<<s[j], s[i]>> \notin less /\ i < j)
        pos(i) == 1 + Cardinality({j \in 1..n : before(j, i)})
    IN  [p \in 1..n |-> s[CHOOSE i \in 1..n : pos(i) = p]]

\* the rows of a table in a total order: less is the set of the pairs <<a, b>>
\* with a before b
SortRows(S, less) ==
    LET n == Cardinality(S)
    IN  [p \in 1..n |-> CHOOSE x \in S : Cardinality({y \in S : <<y, x>> \in less}) = p - 1]

\* str.lower() on the names in use
Lower(s) ==
    CASE s = "Aldric" -> "aldric"
      [] s = "Brina" -> "brina"
      [] s = "Cyra" -> "cyra"
      [] OTHER -> s

\* normalize_type: lower-case, strip, spaces to underscores
normalize_type(s) ==
    CASE s = "Entity Patch" -> "entity_patch"
      [] s = " Entity " -> "entity"
      [] s = "Character" -> "character"
      [] s = "Explicit" -> "explicit"
      [] s = "Ally Of" -> "ally_of"
      [] OTHER -> s

VALID_MARKER_KINDS == {"explicit", "semantic"}
VALID_PLACEMENT_STATUSES == {"placed", "unplaced"}
VALID_TARGET_KINDS == {"entity", "relation", "world"}

\* the _normalize_* functions return the normalized value or raise ValueError
Raises == "ValueError"

_normalize_marker_kind(kind) ==
    IF normalize_type(kind) \in VALID_MARKER_KINDS THEN normalize_type(kind) ELSE Raises

_normalize_placement_status(status) ==
    IF normalize_type(status) \in VALID_PLACEMENT_STATUSES THEN normalize_type(status) ELSE Raises

\* _normalize_target_kind without the membership test
_normalize_target_kind_Unchecked(kind) == normalize_type(kind)

_normalize_target_kind(kind) ==
    IF normalize_type(kind) \in VALID_TARGET_KINDS THEN normalize_type(kind) ELSE Raises

\* ------------------------------------------------------------- time and JSON
_now(t) == <<"iso", t>>
\* pydantic parses a datetime or an ISO text into a datetime
ParseDatetime(v) == <<"dt", v[2]>>
\* model_dump(mode="json") writes a datetime as ISO text
DumpDatetime(v) == <<"iso", v[2]>>

json_dumps(v) == <<"json", v>>
\* _load_json: the fallback for an empty or undecodable text
_load_json(raw, fallback) ==
    IF raw = None \/ raw = "" THEN fallback
    ELSE IF raw[1] = "json" THEN raw[2]
    ELSE fallback

\* a decoded value of the wrong type: a JSON list where an object is expected
\* (written as a record, which compares with objects) and a JSON object where a
\* list is expected (written as a tuple, which compares with lists)
JsonListValue == [wrong_type |-> "list"]
JsonObjectValue == <<[wrong_type |-> "object"]>>
\* isinstance(v, dict) and isinstance(v, list) over the decoded values
isinstance_dict(v) == v # JsonListValue
isinstance_list(v) == v # JsonObjectValue

\* -------------------------------------------------------- pydantic models
EntityFields == {"id", "world_id", "name", "type", "summary", "status",
                 "exists_at_marker", "created_at", "updated_at"}
\* class Relation declares no exists_at_marker field
RelationFields == {"id", "world_id", "source_entity_id", "target_entity_id",
                   "type", "weight", "created_at", "updated_at"}

\* Entity(d), d unpacked: the declared fields, datetimes parsed
Entity(d) ==
    [f \in EntityFields |->
        IF f \in {"created_at", "updated_at"} THEN ParseDatetime(d[f]) ELSE d[f]]

\* Relation(d), d unpacked: the declared fields, datetimes parsed; an undeclared key of d
\* is ignored
Relation(d) ==
    [f \in RelationFields |->
        IF f \in {"created_at", "updated_at"} THEN ParseDatetime(d[f]) ELSE d[f]]

\* model.model_dump(mode="json")
model_dump_json(m) ==
    [f \in DOMAIN m |->
        IF f \in {"created_at", "updated_at"} THEN DumpDatetime(m[f]) ELSE m[f]]

\* ------------------------------------------------------------ table queries
\* MarkerLess with the sort_key left out of the ORDER BY
MarkerLess_NoSortKey(a, b) ==
    \/ a.created_at[2] < b.created_at[2]
    \/ a.created_at[2] = b.created_at[2] /\ TextRank(a.id) < TextRank(b.id)

MarkerLess(a, b) ==
    \/ a.sort_key < b.sort_key
    \/ a.sort_key = b.sort_key /\ a.created_at[2] < b.created_at[2]
    \/ a.sort_key = b.sort_key /\ a.created_at[2] = b.created_at[2]
       /\ TextRank(a.id) < TextRank(b.id)

OperationLess(a, b) ==
    \/ a.order_index < b.order_index
    \/ a.order_index = b.order_index /\ a.created_at[2] < b.created_at[2]
    \/ a.order_index = b.order_index /\ a.created_at[2] = b.created_at[2]
       /\ TextRank(a.id) < TextRank(b.id)

\* SELECT * FROM timeline_markers WHERE world_id = ? ORDER BY sort_key, created_at, id
list_markers(mk, w) ==
    LET rows == {m \in mk : m.world_id = w}
    IN  SortRows(rows, {<<a, b>> \in rows \X rows : MarkerLess(a, b)})

\* SELECT sort_key FROM timeline_markers WHERE world_id = ? AND id = ?
\* _marker_sort_key with the world_id condition left out of the WHERE clause
_marker_sort_key_AnyWorld(mk, w, marker_id) ==
    IF \E m \in mk : m.id = marker_id
    THEN Float((CHOOSE m \in mk : m.id = marker_id).sort_key)
    ELSE NoFloat

_marker_sort_key(mk, w, marker_id) ==
    IF \E m \in mk : m.world_id = w /\ m.id = marker_id
    THEN Float((CHOOSE m \in mk : m.world_id = w /\ m.id = marker_id).sort_key)
    ELSE NoFloat

\* _next_sort_key as COUNT(*) + 1 in place of COALESCE(MAX(sort_key), 0) + 1
_next_sort_key_Count(mk, w) == Cardinality({x \in mk : x.world_id = w}) + 1

\* SELECT COALESCE(MAX(sort_key), 0) + 1 FROM timeline_markers WHERE world_id = ?
_next_sort_key(mk, w) ==
    LET keys == {m.sort_key : m \in {x \in mk : x.world_id = w}}
    IN  IF keys = {} THEN 1
        ELSE (CHOOSE k \in keys : \A j \in keys : j <= k) + 1

\* SELECT * FROM timeline_operations WHERE world_id = ? AND marker_id = ?
\* ORDER BY order_index, created_at, id
list_operations(ops, w, marker_id) ==
    LET rows == {o \in ops : o.world_id = w /\ o.marker_id = marker_id}
    IN  SortRows(rows, {<<a, b>> \in rows \X rows : OperationLess(a, b)})

\* the marker row an operation row joins to (JOIN timeline_markers m ON m.id = o.marker_id)
Joined(mk, o) == {m \in mk : m.id = o.marker_id}
MarkerOf(mk, o) == CHOOSE m \in mk : m.id = o.marker_id

\* JoinedLess with the marker columns left out of the ORDER BY
JoinedLess_ByOperation(mk, a, b) == OperationLess(a, b)

JoinedLess(mk, a, b) ==
    \/ MarkerLess(MarkerOf(mk, a), MarkerOf(mk, b))
    \/ a.marker_id = b.marker_id /\ OperationLess(a, b)

\* _list_operations_up_to with m.sort_key < ? in place of m.sort_key <= ?
_list_operations_up_to_Before(mk, ops, w, marker_sort_key) ==
    LET rows == {o \in ops : /\ o.world_id = w
                             /\ Joined(mk, o) # {}
                             /\ \/ marker_sort_key = NoFloat
                                \/ MarkerOf(mk, o).sort_key < marker_sort_key[1]}
    IN  SortRows(rows, {<<a, b>> \in rows \X rows : JoinedLess(mk, a, b)})

_list_operations_up_to(mk, ops, w, marker_sort_key) ==
    LET rows == {o \in ops : /\ o.world_id = w
                             /\ Joined(mk, o) # {}
                             /\ \/ marker_sort_key = NoFloat
                                \/ MarkerOf(mk, o).sort_key <= marker_sort_key[1]}
    IN  SortRows(rows, {<<a, b>> \in rows \X rows : JoinedLess(mk, a, b)})

\* first creating operation's marker sort_key, per entity id and per relation id
_creation_sort_keys(mk, ops, w) ==
    LET rows == {o \in ops : /\ o.world_id = w
                             /\ Joined(mk, o) # {}
                             /\ o.target_id # None}
        sorted == SortRows(rows, {<<a, b>> \in rows \X rows : JoinedLess(mk, a, b)})
        creates(kind, create_ops) ==
            {i \in 1..Len(sorted) :
                /\ Truthy(sorted[i].target_id)
                /\ normalize_type(sorted[i].target_kind) = kind
                /\ normalize_type(sorted[i].op_type) \in create_ops}
        first(kind, create_ops) ==
            LET idx == creates(kind, create_ops)
                ids == {sorted[i].target_id : i \in idx}
            IN  [id \in ids |->
                    MarkerOf(mk, sorted[CHOOSE i \in idx :
                        /\ sorted[i].target_id = id
                        /\ \A j \in idx : sorted[j].target_id = id => i <= j]).sort_key]
    IN  [entity |-> first("entity", {"entity_create", "entity_add"}),
         relation |-> first("relation", {"relation_create", "relation_add"})]

\* SELECT COUNT(*) FROM timeline_markers WHERE world_id = ? [AND sort_key <= ?]
\* _count_markers_up_to with the sort_key condition left out of the WHERE clause
_count_markers_up_to_All(mk, w, marker_sort_key) ==
    Cardinality({m \in mk : m.world_id = w})

_count_markers_up_to(mk, w, marker_sort_key) ==
    Cardinality({m \in mk : /\ m.world_id = w
                            /\ \/ marker_sort_key = NoFloat
                               \/ m.sort_key <= marker_sort_key[1]})

\* _row_to_entity(row).model_dump(): exists_at_marker defaults to True (the
\* table has no such column), the timestamps are parsed
_row_to_entity(row) ==
    [f \in EntityFields |->
        IF f = "exists_at_marker" THEN TRUE
        ELSE IF f \in {"created_at", "updated_at"} THEN ParseDatetime(row[f])
        ELSE row[f]]

\* _row_to_relation(row).model_dump(): the declared fields of Relation
_row_to_relation(row) == Relation(row)

\* entities of the world ORDER BY name ASC, as model_dump() dicts
_list_base_entities(ents, w) ==
    LET Less(a, b) == \/ TextRank(a.name) < TextRank(b.name)
                      \/ a.name = b.name /\ TextRank(a.id) < TextRank(b.id)
        table == {e \in ents : e.world_id = w}
        rows == SortRows(table, {<<a, b>> \in table \X table : Less(a, b)})
    IN  [i \in 1..Len(rows) |-> _row_to_entity(rows[i])]

\* relations of the world ORDER BY created_at ASC, as model_dump() dicts
_list_base_relations(rels, w) ==
    LET Less(a, b) == \/ a.created_at[2] < b.created_at[2]
                      \/ a.created_at = b.created_at /\ TextRank(a.id) < TextRank(b.id)
        table == {r \in rels : r.world_id = w}
        rows == SortRows(table, {<<a, b>> \in table \X table : Less(a, b)})
    IN  [i \in 1..Len(rows) |-> _row_to_relation(rows[i])]

\* ------------------------------------------------------------------- replay
entity_create_ops == {"entity_create", "entity_add"}
entity_update_ops == {"entity_update", "entity_patch", "entity_modify"}
entity_delete_ops == {"entity_delete", "entity_remove"}
relation_create_ops == {"relation_create", "relation_add"}
relation_update_ops == {"relation_update", "relation_patch", "relation_modify"}
relation_delete_ops == {"relation_delete", "relation_remove"}

\* a or b or c or default, over the payload keys that may name the type
FirstTruthy(s, default) ==
    IF \E i \in 1..Len(s) : Truthy(s[i])
    THEN s[CHOOSE i \in 1..Len(s) : Truthy(s[i]) /\ \A j \in 1..(i - 1) : ~Truthy(s[j])]
    ELSE default

\* _ensure_entity: the entity_map after the call; the caller's `current` is the
\* record with target_id in it, None when there is none
_ensure_entity(world_id, entity_map, target_id, payload, t) ==
    IF InMap(entity_map, target_id) THEN entity_map
    ELSE IF ~Truthy(PayloadGet(payload, "name")) THEN entity_map
    ELSE Append(entity_map,
            [id |-> target_id,
             world_id |-> world_id,
             name |-> PayloadGet(payload, "name"),
             type |-> normalize_type(FirstTruthy(
                         <<PayloadGet(payload, "type"),
                           PayloadGet(payload, "entity_type"),
                           PayloadGet(payload, "kind")>>, "concept")),
             summary |-> PayloadGet(payload, "summary"),
             status |-> DictGet(payload, "status", "active"),
             exists_at_marker |-> TRUE,
             created_at |-> DictGet(payload, "created_at", _now(t)),
             updated_at |-> DictGet(payload, "updated_at", _now(t))])

_patch_entity(current, payload, t) ==
    [current EXCEPT
        !.name = IF "name" \in DOMAIN payload THEN payload["name"] ELSE @,
        !.type = IF "type" \in DOMAIN payload THEN normalize_type(payload["type"]) ELSE @,
        !.summary = IF "summary" \in DOMAIN payload THEN payload["summary"] ELSE @,
        !.status = IF "status" \in DOMAIN payload /\ PayloadGet(payload, "status") # None
                   THEN payload["status"] ELSE @,
        !.updated_at = _now(t)]

\* the assignments to source_entity_id, target_entity_id, type, weight shared by
\* relation create and relation update
PatchRelation(current, payload, entity_map, t) ==
    [current EXCEPT
        !.source_entity_id =
            IF "source_entity_id" \in DOMAIN payload
               /\ InMap(entity_map, payload["source_entity_id"])
            THEN payload["source_entity_id"] ELSE @,
        !.target_entity_id =
            IF "target_entity_id" \in DOMAIN payload
               /\ InMap(entity_map, payload["target_entity_id"])
            THEN payload["target_entity_id"] ELSE @,
        !.type = IF "type" \in DOMAIN payload THEN normalize_type(payload["type"]) ELSE @,
        !.weight = IF "weight" \in DOMAIN payload THEN payload["weight"] ELSE @,
        !.updated_at = _now(t)]

\* ApplyEntityOperation with an entity update that flags the entity existing, as
\* an entity create does
ApplyEntityOperation_PatchRevives(world_id, st, operation, t) ==
    LET op_type == normalize_type(operation.op_type)
        payload == operation.payload
        target_id == IF Truthy(operation.target_id) THEN operation.target_id
                     ELSE PayloadGet(payload, "id")
        ensured == _ensure_entity(world_id, st.entity_map, target_id, payload, t)
        i == IndexOf(ensured, target_id)
        k == IndexOf(st.entity_map, target_id)
    IN  IF op_type \in entity_create_ops THEN
            IF ~Truthy(target_id) \/ i = 0 THEN st
            ELSE [st EXCEPT
                    !.entity_map = [ensured EXCEPT ![i] =
                        [_patch_entity(@, payload, t) EXCEPT !.exists_at_marker = TRUE]],
                    !.entity_exists_map = DictSet(@, target_id, TRUE)]
        ELSE IF op_type \in entity_update_ops THEN
            IF ~Truthy(target_id) \/ i = 0 THEN st
            ELSE LET exists_map == DictSet(st.entity_exists_map, target_id, TRUE)
                 IN  [st EXCEPT
                        !.entity_map = [ensured EXCEPT ![i] =
                            [_patch_entity(@, payload, t) EXCEPT
                                !.exists_at_marker = DictGet(exists_map, target_id, TRUE)]],
                        !.entity_exists_map = exists_map]
        ELSE IF op_type \in entity_delete_ops THEN
            IF ~Truthy(target_id) THEN st
            ELSE [st EXCEPT
                    !.entity_map =
                        IF k = 0 THEN @
                        ELSE [@ EXCEPT ![k] = [@ EXCEPT
                                !.status = IF "status" \in DOMAIN payload
                                              /\ PayloadGet(payload, "status") # None
                                           THEN payload["status"] ELSE @,
                                !.updated_at = _now(t),
                                !.exists_at_marker = FALSE]],
                    !.entity_exists_map = DictSet(@, target_id, FALSE)]
        ELSE st

\* one iteration of the loop of _apply_operations over
\* st = [entity_map, relation_map, entity_exists_map, relation_exists_map]
ApplyEntityOperation(world_id, st, operation, t) ==
    LET op_type == normalize_type(operation.op_type)
        payload == operation.payload
        target_id == IF Truthy(operation.target_id) THEN operation.target_id
                     ELSE PayloadGet(payload, "id")
        ensured == _ensure_entity(world_id, st.entity_map, target_id, payload, t)
        i == IndexOf(ensured, target_id)
        k == IndexOf(st.entity_map, target_id)
    IN  IF op_type \in entity_create_ops THEN
            IF ~Truthy(target_id) \/ i = 0 THEN st
            ELSE [st EXCEPT
                    !.entity_map = [ensured EXCEPT ![i] =
                        [_patch_entity(@, payload, t) EXCEPT !.exists_at_marker = TRUE]],
                    !.entity_exists_map = DictSet(@, target_id, TRUE)]
        ELSE IF op_type \in entity_update_ops THEN
            IF ~Truthy(target_id) \/ i = 0 THEN st
            ELSE LET exists_map == IF target_id \notin DOMAIN st.entity_exists_map
                                   THEN DictSet(st.entity_exists_map, target_id, TRUE)
                                   ELSE st.entity_exists_map
                 IN  [st EXCEPT
                        !.entity_map = [ensured EXCEPT ![i] =
                            [_patch_entity(@, payload, t) EXCEPT
                                !.exists_at_marker = DictGet(exists_map, target_id, TRUE)]],
                        !.entity_exists_map = exists_map]
        ELSE IF op_type \in entity_delete_ops THEN
            IF ~Truthy(target_id) THEN st
            ELSE [st EXCEPT
                    !.entity_map =
                        IF k = 0 THEN @
                        ELSE [@ EXCEPT ![k] = [@ EXCEPT
                                !.status = IF "status" \in DOMAIN payload
                                              /\ PayloadGet(payload, "status") # None
                                           THEN payload["status"] ELSE @,
                                !.updated_at = _now(t),
                                !.exists_at_marker = FALSE]],
                    !.entity_exists_map = DictSet(@, target_id, FALSE)]
        ELSE st

ApplyRelationOperation(world_id, st, operation, t) ==
    LET op_type == normalize_type(operation.op_type)
        payload == operation.payload
        target_id == IF Truthy(operation.target_id) THEN operation.target_id
                     ELSE PayloadGet(payload, "id")
        k == IndexOf(st.relation_map, target_id)
        source_entity_id == PayloadGet(payload, "source_entity_id")
        target_entity_id == PayloadGet(payload, "target_entity_id")
        fresh == [id |-> target_id,
                  world_id |-> world_id,
                  source_entity_id |-> source_entity_id,
                  target_entity_id |-> target_entity_id,
                  type |-> normalize_type(FirstTruthy(
                              <<PayloadGet(payload, "type"),
                                PayloadGet(payload, "relation_type"),
                                PayloadGet(payload, "kind")>>, "related_to")),
                  weight |-> DictGet(payload, "weight", "0.5"),
                  exists_at_marker |-> TRUE,
                  created_at |-> DictGet(payload, "created_at", _now(t)),
                  updated_at |-> DictGet(payload, "updated_at", _now(t))]
    IN  IF op_type \in relation_create_ops THEN
            IF ~Truthy(target_id) THEN st
            ELSE IF k = 0 /\ (~Truthy(source_entity_id) \/ ~Truthy(target_entity_id)) THEN st
            ELSE IF k = 0 /\ (~InMap(st.entity_map, source_entity_id)
                              \/ ~InMap(st.entity_map, target_entity_id)) THEN st
            ELSE LET current == IF k = 0 THEN fresh ELSE st.relation_map[k]
                     patched == [PatchRelation(current, payload, st.entity_map, t)
                                    EXCEPT !.exists_at_marker = TRUE]
                 IN  [st EXCEPT
                        !.relation_map = IF k = 0 THEN Append(@, patched)
                                         ELSE [@ EXCEPT ![k] = patched],
                        !.relation_exists_map = DictSet(@, target_id, TRUE)]
        ELSE IF op_type \in relation_update_ops THEN
            IF ~Truthy(target_id) \/ k = 0 THEN st
            ELSE LET exists_map == IF target_id \notin DOMAIN st.relation_exists_map
                                   THEN DictSet(st.relation_exists_map, target_id, TRUE)
                                   ELSE st.relation_exists_map
                 IN  [st EXCEPT
                        !.relation_map = [@ EXCEPT ![k] =
                            [PatchRelation(@, payload, st.entity_map, t) EXCEPT
                                !.exists_at_marker = DictGet(exists_map, target_id, TRUE)]],
                        !.relation_exists_map = exists_map]
        ELSE IF op_type \in relation_delete_ops THEN
            IF ~Truthy(target_id) THEN st
            ELSE [st EXCEPT
                    !.relation_map =
                        IF k = 0 THEN @
                        ELSE [@ EXCEPT ![k] = [@ EXCEPT !.updated_at = _now(t),
                                                        !.exists_at_marker = FALSE]],
                    !.relation_exists_map = DictSet(@, target_id, FALSE)]
        ELSE st

\* ApplyOperation with a world operation's payload patched into every entity
ApplyOperation_WorldPatched(world_id, st, operation, t) ==
    LET target_kind == normalize_type(operation.target_kind)
    IN  IF target_kind = "entity" THEN ApplyEntityOperation(world_id, st, operation, t)
        ELSE IF target_kind = "relation" THEN ApplyRelationOperation(world_id, st, operation, t)
        ELSE [st EXCEPT !.entity_map =
                [i \in 1..Len(@) |-> _patch_entity(@[i], operation.payload, t)]]

ApplyOperation(world_id, st, operation, t) ==
    LET target_kind == normalize_type(operation.target_kind)
    IN  IF target_kind = "entity" THEN ApplyEntityOperation(world_id, st, operation, t)
        ELSE IF target_kind = "relation" THEN ApplyRelationOperation(world_id, st, operation, t)
        ELSE st

RECURSIVE _apply_operations(_, _, _, _)
_apply_operations(world_id, st, ops, t) ==
    IF ops = <<>> THEN st
    ELSE _apply_operations(world_id, ApplyOperation(world_id, st, Head(ops), t), Tail(ops), t)

\* ----------------------------------------------------------------- snapshots
\* _row_to_snapshot: the stored JSON text is decoded, {} when it cannot be
_row_to_snapshot(row) == [row EXCEPT !.state_json = _load_json(@, <<>>)]

\* TimelineSnapshot(...) declares state_json: dict[str, Any]: pydantic raises
\* ValidationError for a decoded value that is not an object
TimelineSnapshot_validates(snapshot) == isinstance_dict(snapshot.state_json)

\* SELECT * FROM timeline_snapshots WHERE world_id = ? AND marker_id = ?;
\* fetchone(): <<>> for None, else <<the first matching row>>
get_snapshot(snaps, w, marker_id) ==
    LET hits == {i \in 1..Len(snaps) : snaps[i].world_id = w /\ snaps[i].marker_id = marker_id}
    IN  IF hits = {} THEN <<>>
        ELSE <<_row_to_snapshot(snaps[CHOOSE i \in hits : \A j \in hits : i <= j])>>

\* UpsertRow as a plain INSERT, without the ON CONFLICT clause
UpsertRow_Insert(snaps, w, marker_id, data, t) ==
    Append(snaps, [world_id |-> w,
                   marker_id |-> marker_id,
                   state_json |-> json_dumps(data.state_json),
                   state_hash |-> data.state_hash,
                   applied_marker_count |-> data.applied_marker_count,
                   entity_count |-> data.entity_count,
                   relation_count |-> data.relation_count,
                   created_at |-> _now(t),
                   updated_at |-> _now(t)])

\* UpsertRow with state_hash and the counts left out of the DO UPDATE SET list
UpsertRow_StateOnly(snaps, w, marker_id, data, t) ==
    LET hits == {i \in 1..Len(snaps) : snaps[i].world_id = w /\ snaps[i].marker_id = marker_id}
    IN  IF hits = {} THEN
            Append(snaps, [world_id |-> w,
                           marker_id |-> marker_id,
                           state_json |-> json_dumps(data.state_json),
                           state_hash |-> data.state_hash,
                           applied_marker_count |-> data.applied_marker_count,
                           entity_count |-> data.entity_count,
                           relation_count |-> data.relation_count,
                           created_at |-> _now(t),
                           updated_at |-> _now(t)])
        ELSE [i \in 1..Len(snaps) |->
                IF i \in hits
                THEN [snaps[i] EXCEPT !.state_json = json_dumps(data.state_json),
                                      !.updated_at = _now(t)]
                ELSE snaps[i]]

\* INSERT ... ON CONFLICT(world_id, marker_id) DO UPDATE SET state_json, state_hash,
\* applied_marker_count, entity_count, relation_count, updated_at
UpsertRow(snaps, w, marker_id, data, t) ==
    LET hits == {i \in 1..Len(snaps) : snaps[i].world_id = w /\ snaps[i].marker_id = marker_id}
    IN  IF hits = {} THEN
            Append(snaps, [world_id |-> w,
                           marker_id |-> marker_id,
                           state_json |-> json_dumps(data.state_json),
                           state_hash |-> data.state_hash,
                           applied_marker_count |-> data.applied_marker_count,
                           entity_count |-> data.entity_count,
                           relation_count |-> data.relation_count,
                           created_at |-> _now(t),
                           updated_at |-> _now(t)])
        ELSE [i \in 1..Len(snaps) |->
                IF i \in hits
                THEN [snaps[i] EXCEPT !.state_json = json_dumps(data.state_json),
                                      !.state_hash = data.state_hash,
                                      !.applied_marker_count = data.applied_marker_count,
                                      !.entity_count = data.entity_count,
                                      !.relation_count = data.relation_count,
                                      !.updated_at = _now(t)]
                ELSE snaps[i]]

_state_json_from_world_state(state) ==
    [world_id |-> state.world_id,
     marker_id |-> state.marker_id,
     applied_marker_count |-> state.applied_marker_count,
     entities |-> [i \in 1..Len(state.entities) |-> model_dump_json(state.entities[i])],
     relations |-> [i \in 1..Len(state.relations) |-> model_dump_json(state.relations[i])]]

\* SHA-256 of json.dumps(state_json, sort_keys=True, separators=(",", ":")): a
\* record is its own canonical encoding and the digest is taken as injective
_state_hash(state_json) == <<"sha256", state_json>>

NameLess(a, b) == TextRank(Lower(a.name)) < TextRank(Lower(b.name))
\* entities.sort(key=lambda entity: entity.name.lower())
SortedByName(s) == StableSort(s, {<<a, b>> \in Range(s) \X Range(s) : NameLess(a, b)})

RelationLess(a, b) ==
    \/ a.created_at[2] < b.created_at[2]
    \/ a.created_at[2] = b.created_at[2] /\ TextRank(a.id) < TextRank(b.id)
\* relations.sort(key=lambda relation: (relation.created_at, relation.id))
SortedByCreation(s) == StableSort(s, {<<a, b>> \in Range(s) \X Range(s) : RelationLess(a, b)})

\* the relations _world_state_from_snapshot builds: Relation(relation) for the
\* raw relations whose two ends are among the entities
SnapshotRelations(relations_raw, ents) ==
    LET Kept(r) == InMap(ents, r.source_entity_id) /\ InMap(ents, r.target_entity_id)
        kept == SelectSeq(relations_raw, Kept)
    IN  [i \in 1..Len(kept) |-> Relation(kept[i])]

\* the rest of _world_state_from_snapshot, from its loop over the relations
SnapshotState(world_id, marker_id, snapshot, ents, rels) ==
    LET Exists(id) == ents[IndexOf(ents, id)].exists_at_marker
    IN  \* relation.exists_at_marker is read before it is assigned
        IF \E i \in 1..Len(rels) : "exists_at_marker" \notin DOMAIN rels[i]
        THEN [ok |-> FALSE, error |-> "AttributeError"]
        ELSE [ok |-> TRUE,
              world_id |-> world_id,
              marker_id |-> marker_id,
              applied_marker_count |->
                  DictGet(snapshot.state_json, "applied_marker_count",
                          snapshot.applied_marker_count),
              entities |-> ents,
              relations |-> SortedByCreation(
                  [i \in 1..Len(rels) |->
                      [rels[i] EXCEPT !.exists_at_marker =
                          @ /\ Exists(rels[i].source_entity_id)
                            /\ Exists(rels[i].target_entity_id)]]),
              from_snapshot_marker_id |-> marker_id,
              note |-> "Loaded from cached timeline snapshot."]

SnapshotEntities(entities_raw) ==
    SortedByName([i \in 1..Len(entities_raw) |-> Entity(entities_raw[i])])

\* the fields Entity declares without a default
EntityRequired == {"world_id", "name", "type"}

\* _world_state_from_snapshot; [ok |-> FALSE] when it raises
_world_state_from_snapshot(world_id, marker_id, snapshot) ==
    IF \/ "entities" \notin DOMAIN snapshot.state_json
       \/ "relations" \notin DOMAIN snapshot.state_json
       \/ ~isinstance_list(snapshot.state_json["entities"])
       \/ ~isinstance_list(snapshot.state_json["relations"])
    THEN [ok |-> FALSE, error |-> "ValueError"]
    ELSE IF \E i \in 1..Len(snapshot.state_json["entities"]) :
                ~(EntityRequired \subseteq DOMAIN snapshot.state_json["entities"][i])
    THEN [ok |-> FALSE, error |-> "ValidationError"]
    ELSE SnapshotState(world_id, marker_id, snapshot,
                       SnapshotEntities(snapshot.state_json["entities"]),
                       SnapshotRelations(snapshot.state_json["relations"],
                                         SnapshotEntities(snapshot.state_json["entities"])))

\* the marker ids the LIMIT 1 query may return: among the world's snapshot rows
\* joined to their marker (sort_key <= the bound, if any), those first in
\* ORDER BY m.sort_key DESC, s.updated_at DESC; {None} when there is no row
_nearest_snapshot_marker(mk, snaps, w, marker_sort_key) ==
    LET Sk(i) == (CHOOSE m \in mk : m.id = snaps[i].marker_id).sort_key
        rows == {i \in 1..Len(snaps) :
                    /\ snaps[i].world_id = w
                    /\ \E m \in mk : m.id = snaps[i].marker_id
                    /\ \/ marker_sort_key = NoFloat
                       \/ Sk(i) <= marker_sort_key[1]}
        Before(i, j) == \/ Sk(i) > Sk(j)
                        \/ Sk(i) = Sk(j) /\ snaps[i].updated_at[2] > snaps[j].updated_at[2]
    IN  IF rows = {} THEN {None}
        ELSE {snaps[i].marker_id : i \in {x \in rows : \A y \in rows : ~Before(y, x)}}

\* ------------------------------------------------------------- projection
\* get_world_state, the replay path, in its four steps.
\* The maps replay starts from: the base rows flagged existing, and the
\* future-creation pre-pass over `created` (the result of _creation_sort_keys)
InitialMaps(base_entities, base_relations, created, marker_sort_key) ==
    LET entity_map == [i \in 1..Len(base_entities) |->
                          [base_entities[i] EXCEPT !.exists_at_marker = TRUE]]
        relation_map == [i \in 1..Len(base_relations) |->
                            [f \in DOMAIN base_relations[i] \cup {"exists_at_marker"} |->
                                IF f = "exists_at_marker" THEN TRUE ELSE base_relations[i][f]]]
        Future(m) == {id \in DOMAIN m : m[id] > marker_sort_key[1]}
        entity_ids == {base_entities[i].id : i \in 1..Len(base_entities)}
        relation_ids == {base_relations[i].id : i \in 1..Len(base_relations)}
    IN  [entity_map |-> entity_map,
         relation_map |-> relation_map,
         entity_exists_map |->
            IF marker_sort_key = NoFloat THEN [id \in entity_ids |-> TRUE]
            ELSE [id \in entity_ids \cup Future(created.entity) |->
                    id \notin Future(created.entity)],
         relation_exists_map |->
            IF marker_sort_key = NoFloat THEN [id \in relation_ids |-> TRUE]
            ELSE [id \in relation_ids \cup Future(created.relation) |->
                    id \notin Future(created.relation)]]

\* the entities list built from the maps after replay
OutEntities(st) ==
    SortedByName([i \in 1..Len(st.entity_map) |->
                     Entity([st.entity_map[i] EXCEPT !.exists_at_marker =
                         DictGet(st.entity_exists_map, st.entity_map[i].id, TRUE)])])

\* OutRelations with every relation of the map listed, whatever its endpoints
OutRelations_Unfiltered(st, out_entities) ==
    LET ExistsById(id) == IF InMap(out_entities, id)
                          THEN out_entities[IndexOf(out_entities, id)].exists_at_marker
                          ELSE FALSE
        kept == st.relation_map
    IN  SortedByCreation([i \in 1..Len(kept) |->
                             Relation([kept[i] EXCEPT !.exists_at_marker =
                                 /\ DictGet(st.relation_exists_map, kept[i].id, TRUE)
                                 /\ ExistsById(kept[i].source_entity_id)
                                 /\ ExistsById(kept[i].target_entity_id)])])

\* the relations list built from the maps after replay and the entities list
OutRelations(st, out_entities) ==
    LET ExistsById(id) == IF InMap(out_entities, id)
                          THEN out_entities[IndexOf(out_entities, id)].exists_at_marker
                          ELSE FALSE
        Kept(r) == InMap(st.entity_map, r.source_entity_id)
                   /\ InMap(st.entity_map, r.target_entity_id)
        kept == SelectSeq(st.relation_map, Kept)
    IN  SortedByCreation([i \in 1..Len(kept) |->
                             Relation([kept[i] EXCEPT !.exists_at_marker =
                                 /\ DictGet(st.relation_exists_map, kept[i].id, TRUE)
                                 /\ ExistsById(kept[i].source_entity_id)
                                 /\ ExistsById(kept[i].target_entity_id)])])

Projection(st) ==
    [entities |-> OutEntities(st), relations |-> OutRelations(st, OutEntities(st))]

Replay(mk, ops, ents, rels, t, world_id, marker_sort_key) ==
    Projection(
        _apply_operations(world_id,
            InitialMaps(_list_base_entities(ents, world_id),
                        _list_base_relations(rels, world_id),
                        _creation_sort_keys(mk, ops, world_id),
                        marker_sort_key),
            _list_operations_up_to(mk, ops, world_id, marker_sort_key), t))

\* what get_world_state returns once the marker is resolved: the snapshot's
\* state when one is stored and loads, the replayed state otherwise
ServedState(world_id, marker_id, use_snapshot, snapshot, cached, replayed, count, nearest) ==
    IF Truthy(marker_id) /\ use_snapshot /\ snapshot # <<>> /\ cached.ok
    THEN {cached}
    ELSE {[ok |-> TRUE,
           world_id |-> world_id,
           marker_id |-> marker_id,
           applied_marker_count |-> count,
           entities |-> replayed.entities,
           relations |-> replayed.relations,
           from_snapshot_marker_id |-> near,
           note |-> "Baseline entities/relations come from canonical tables, then timeline operations are replayed in marker order."]
          : near \in nearest}

ResolvedState(mk, ops, snaps, ents, rels, t, world_id, marker_id, use_snapshot, marker_sort_key, snapshot) ==
    IF Truthy(marker_id) /\ marker_sort_key = NoFloat
    THEN {[ok |-> FALSE, error |-> "ValueError"]}
    ELSE IF /\ Truthy(marker_id) /\ use_snapshot /\ snapshot # <<>>
            /\ ~TimelineSnapshot_validates(snapshot[1])
    THEN \* get_snapshot is called outside the try block
         {[ok |-> FALSE, error |-> "ValidationError"]}
    ELSE ServedState(world_id, marker_id, use_snapshot, snapshot,
                     _world_state_from_snapshot(world_id, marker_id, snapshot[1]),
                     Replay(mk, ops, ents, rels, t, world_id, marker_sort_key),
                     _count_markers_up_to(mk, world_id, marker_sort_key),
                     _nearest_snapshot_marker(mk, snaps, world_id, marker_sort_key))

\* the TimelineWorldState values get_world_state may return; [ok |-> FALSE] for
\* the ValueError of an unknown marker
get_world_state(mk, ops, snaps, ents, rels, t, world_id, marker_id, use_snapshot) ==
    ResolvedState(mk, ops, snaps, ents, rels, t, world_id, marker_id, use_snapshot,
                  IF Truthy(marker_id) THEN _marker_sort_key(mk, world_id, marker_id)
                  ELSE NoFloat,
                  get_snapshot(snaps, world_id, marker_id))

\* the TimelineSnapshotUpsert generate_snapshot builds from the world state
SnapshotOf(state_json, state) ==
    [state_json |-> state_json,
     state_hash |-> _state_hash(state_json),
     applied_marker_count |-> state.applied_marker_count,
     entity_count |-> Len(state.entities),
     relation_count |-> Len(state.relations)]

SnapshotOfState(state) == SnapshotOf(_state_json_from_world_state(state), state)

\* generate_snapshot: the snapshot table after the call (the marker exists)
GenerateRow(mk, ops, snaps, ents, rels, t, world_id, marker_id) ==
    UpsertRow(snaps, world_id, marker_id,
              SnapshotOfState(CHOOSE ws \in get_world_state(mk, ops, snaps, ents, rels, t,
                                                            world_id, marker_id, FALSE) : TRUE),
              t)

RECURSIVE GenerateEach(_, _, _, _, _, _, _, _)
GenerateEach(mk, ops, snaps, ents, rels, t, world_id, list) ==
    IF list = <<>> THEN snaps
    ELSE GenerateEach(mk, ops,
                      GenerateRow(mk, ops, snaps, ents, rels, t, world_id, Head(list).id),
                      ents, rels, t, world_id, Tail(list))

\* DeleteWorldSnapshots with the DELETE left out
DeleteWorldSnapshots_Skipped(snaps, world_id) == snaps

\* DeleteWorldSnapshots with the WHERE clause left out
DeleteWorldSnapshots_AllWorlds(snaps, world_id) == <<>>

\* DELETE FROM timeline_snapshots WHERE world_id = ?
DeleteWorldSnapshots(snaps, world_id) ==
    LET Other(row) == row.world_id # world_id
    IN  SelectSeq(snaps, Other)

\* rebuild_snapshots: the snapshot table after the call
RebuildRows(mk, ops, snaps, ents, rels, t, world_id) ==
    GenerateEach(mk, ops, DeleteWorldSnapshots(snaps, world_id), ents, rels, t,
                 world_id, list_markers(mk, world_id))

\* the snapshot table after a write handler's `if rebuild_snapshots:` tail
AfterWrite(mk, ops, snaps, ents, rels, t, world_id, rebuild) ==
    IF rebuild THEN RebuildRows(mk, ops, snaps, ents, rels, t, world_id) ELSE snaps

\* ---------------------------------------------------------------- requests
\* TimelineOperationCreate of a body: order_index defaults to 0 when omitted
TimelineOperationCreate(body) ==
    [op_type |-> body.op_type,
     target_kind |-> body.target_kind,
     target_id |-> DictGet(body, "target_id", None),
     payload |-> DictGet(body, "payload", <<>>),
     order_index |-> DictGet(body, "order_index", 0)]

\* TimelineMarkerCreate of a body: the defaults of the omitted fields
TimelineMarkerCreate(body) ==
    [marker_kind |-> DictGet(body, "marker_kind", "explicit"),
     placement_status |-> DictGet(body, "placement_status", "placed"),
     date_sort_value |-> DictGet(body, "date_sort_value", NoFloat),
     sort_key |-> DictGet(body, "sort_key", NoFloat),
     operations |-> LET raw == DictGet(body, "operations", <<>>)
                    IN  [i \in 1..Len(raw) |-> TimelineOperationCreate(raw[i])]]

MarkerExists(mk, w, marker_id) == \E m \in mk : m.world_id = w /\ m.id = marker_id
GetMarkerRow(mk, w, marker_id) == CHOOSE m \in mk : m.world_id = w /\ m.id = marker_id

\* get_marker(include_operations=True): the row with its operations listed
get_marker(mk, ops, w, marker_id) ==
    [f \in DOMAIN GetMarkerRow(mk, w, marker_id) \cup {"operations"} |->
        IF f = "operations" THEN list_operations(ops, w, marker_id)
        ELSE GetMarkerRow(mk, w, marker_id)[f]]

OperationExists(ops, w, marker_id, operation_id) ==
    \E o \in ops : o.world_id = w /\ o.marker_id = marker_id /\ o.id = operation_id
_get_operation(ops, w, marker_id, operation_id) ==
    CHOOSE o \in ops : o.world_id = w /\ o.marker_id = marker_id /\ o.id = operation_id

\* _get_db with the foreign_keys pragma left out: SQLite then enforces no
\* foreign key and runs no ON DELETE action
foreign_keys_Off == FALSE

\* _get_db: PRAGMA foreign_keys = ON on every connection
foreign_keys == TRUE

\* ON DELETE CASCADE from timeline_markers (schema in database/init_db.sql)
CascadeOperations(ops, marker_id) == {o \in ops : o.marker_id # marker_id}
CascadeSnapshots(snaps, marker_id) ==
    LET Other(row) == row.marker_id # marker_id
    IN  SelectSeq(snaps, Other)

\* ----------------------------------------------------------------- handlers
\* Each action is one call of a TimelineService method, run to completion.
\* A call that writes stamps its rows with _now() = clock and time then passes.

Failed(call, error) ==
    /\ response' = [call |-> call, ok |-> FALSE, error |-> error]
    /\ UNCHANGED <<markers, operations, snapshots, entities, relations, clock>>

\* create_marker with every semantic marker stored unplaced, with or without a
\* sort_key
create_marker_SemanticUnplaced(world_id, body, rebuild, marker_id, operation_ids) ==
    LET data == TimelineMarkerCreate(body)
        marker_kind == _normalize_marker_kind(data.marker_kind)
        requested == _normalize_placement_status(data.placement_status)
        placement_status == IF marker_kind = "semantic"
                            THEN "unplaced" ELSE requested
        sort_key == IF data.sort_key # NoFloat THEN data.sort_key[1]
                    ELSE IF marker_kind = "explicit" /\ data.date_sort_value # NoFloat
                    THEN data.date_sort_value[1]
                    ELSE _next_sort_key(markers, world_id)
        row == [id |-> marker_id,
                world_id |-> world_id,
                marker_kind |-> marker_kind,
                placement_status |-> placement_status,
                date_sort_value |-> data.date_sort_value,
                sort_key |-> sort_key,
                created_at |-> _now(clock),
                updated_at |-> _now(clock)]
        n == Len(data.operations)
        op_rows == {[id |-> operation_ids[i],
                     world_id |-> world_id,
                     marker_id |-> marker_id,
                     op_type |-> normalize_type(data.operations[i].op_type),
                     target_kind |-> _normalize_target_kind(data.operations[i].target_kind),
                     target_id |-> data.operations[i].target_id,
                     payload |-> data.operations[i].payload,
                     order_index |-> data.operations[i].order_index,
                     created_at |-> _now(clock),
                     updated_at |-> _now(clock)] : i \in 1..n}
        mk == markers \cup {row}
        ops == operations \cup op_rows
    IN  /\ Len(operation_ids) = n
        /\ IF \/ marker_kind = Raises
              \/ requested = Raises
              \/ \E i \in 1..n : _normalize_target_kind(data.operations[i].target_kind) = Raises
           THEN Failed("create_marker", "ValueError")
           ELSE /\ markers' = mk
                /\ operations' = ops
                /\ snapshots' = AfterWrite(mk, ops, snapshots, entities, relations, clock,
                                           world_id, rebuild)
                /\ clock' = clock + 1
                /\ response' = [call |-> "create_marker", ok |-> TRUE, body |-> body,
                                marker |-> get_marker(mk, ops, world_id, marker_id)]
                /\ UNCHANGED <<entities, relations>>

\* marker_id and operation_ids are the uuid4() values the call draws
create_marker(world_id, body, rebuild, marker_id, operation_ids) ==
    LET data == TimelineMarkerCreate(body)
        marker_kind == _normalize_marker_kind(data.marker_kind)
        requested == _normalize_placement_status(data.placement_status)
        placement_status == IF marker_kind = "semantic" /\ data.sort_key = NoFloat
                            THEN "unplaced" ELSE requested
        sort_key == IF data.sort_key # NoFloat THEN data.sort_key[1]
                    ELSE IF marker_kind = "explicit" /\ data.date_sort_value # NoFloat
                    THEN data.date_sort_value[1]
                    ELSE _next_sort_key(markers, world_id)
        row == [id |-> marker_id,
                world_id |-> world_id,
                marker_kind |-> marker_kind,
                placement_status |-> placement_status,
                date_sort_value |-> data.date_sort_value,
                sort_key |-> sort_key,
                created_at |-> _now(clock),
                updated_at |-> _now(clock)]
        n == Len(data.operations)
        op_rows == {[id |-> operation_ids[i],
                     world_id |-> world_id,
                     marker_id |-> marker_id,
                     op_type |-> normalize_type(data.operations[i].op_type),
                     target_kind |-> _normalize_target_kind(data.operations[i].target_kind),
                     target_id |-> data.operations[i].target_id,
                     payload |-> data.operations[i].payload,
                     order_index |-> data.operations[i].order_index,
                     created_at |-> _now(clock),
                     updated_at |-> _now(clock)] : i \in 1..n}
        mk == markers \cup {row}
        ops == operations \cup op_rows
    IN  /\ Len(operation_ids) = n
        /\ IF \/ marker_kind = Raises
              \/ requested = Raises
              \/ \E i \in 1..n : _normalize_target_kind(data.operations[i].target_kind) = Raises
           THEN Failed("create_marker", "ValueError")
           ELSE /\ markers' = mk
                /\ operations' = ops
                /\ snapshots' = AfterWrite(mk, ops, snapshots, entities, relations, clock,
                                           world_id, rebuild)
                /\ clock' = clock + 1
                /\ response' = [call |-> "create_marker", ok |-> TRUE, body |-> body,
                                marker |-> get_marker(mk, ops, world_id, marker_id)]
                /\ UNCHANGED <<entities, relations>>

\* update_marker with the sort_key following a supplied date_sort_value, as
\* create_marker derives it
update_marker_Derives(world_id, marker_id, data, rebuild) ==
    IF ~MarkerExists(markers, world_id, marker_id)
    THEN /\ response' = [call |-> "update_marker", ok |-> TRUE, marker |-> NoRow]
         /\ UNCHANGED <<markers, operations, snapshots, entities, relations, clock>>
    ELSE IF \/ "marker_kind" \in DOMAIN data
               /\ _normalize_marker_kind(data["marker_kind"]) = Raises
            \/ "placement_status" \in DOMAIN data
               /\ _normalize_placement_status(data["placement_status"]) = Raises
    THEN Failed("update_marker", "ValueError")
    ELSE IF DOMAIN data = {}
    THEN /\ response' = [call |-> "update_marker", ok |-> TRUE,
                         marker |-> get_marker(markers, operations, world_id, marker_id)]
         /\ UNCHANGED <<markers, operations, snapshots, entities, relations, clock>>
    ELSE LET old == GetMarkerRow(markers, world_id, marker_id)
             new == [old EXCEPT
                        !.marker_kind = IF "marker_kind" \in DOMAIN data
                                        THEN _normalize_marker_kind(data["marker_kind"]) ELSE @,
                        !.placement_status =
                            IF "placement_status" \in DOMAIN data
                            THEN _normalize_placement_status(data["placement_status"]) ELSE @,
                        !.date_sort_value = IF "date_sort_value" \in DOMAIN data
                                            THEN Float(data["date_sort_value"]) ELSE @,
                        !.sort_key = IF "sort_key" \in DOMAIN data THEN data["sort_key"]
                                     ELSE IF "date_sort_value" \in DOMAIN data
                                     THEN data["date_sort_value"] ELSE @,
                        !.updated_at = _now(clock)]
             mk == (markers \ {old}) \cup {new}
         IN  /\ markers' = mk
             /\ snapshots' = AfterWrite(mk, operations, snapshots, entities, relations, clock,
                                        world_id, rebuild)
             /\ clock' = clock + 1
             /\ response' = [call |-> "update_marker", ok |-> TRUE,
                             marker |-> get_marker(mk, operations, world_id, marker_id)]
             /\ UNCHANGED <<operations, entities, relations>>

\* data: the non-null fields of the TimelineMarkerUpdate body
update_marker(world_id, marker_id, data, rebuild) ==
    IF ~MarkerExists(markers, world_id, marker_id)
    THEN /\ response' = [call |-> "update_marker", ok |-> TRUE, marker |-> NoRow]
         /\ UNCHANGED <<markers, operations, snapshots, entities, relations, clock>>
    ELSE IF \/ "marker_kind" \in DOMAIN data
               /\ _normalize_marker_kind(data["marker_kind"]) = Raises
            \/ "placement_status" \in DOMAIN data
               /\ _normalize_placement_status(data["placement_status"]) = Raises
    THEN Failed("update_marker", "ValueError")
    ELSE IF DOMAIN data = {}
    THEN /\ response' = [call |-> "update_marker", ok |-> TRUE,
                         marker |-> get_marker(markers, operations, world_id, marker_id)]
         /\ UNCHANGED <<markers, operations, snapshots, entities, relations, clock>>
    ELSE LET old == GetMarkerRow(markers, world_id, marker_id)
             new == [old EXCEPT
                        !.marker_kind = IF "marker_kind" \in DOMAIN data
                                        THEN _normalize_marker_kind(data["marker_kind"]) ELSE @,
                        !.placement_status =
                            IF "placement_status" \in DOMAIN data
                            THEN _normalize_placement_status(data["placement_status"]) ELSE @,
                        !.date_sort_value = IF "date_sort_value" \in DOMAIN data
                                            THEN Float(data["date_sort_value"]) ELSE @,
                        !.sort_key = IF "sort_key" \in DOMAIN data THEN data["sort_key"] ELSE @,
                        !.updated_at = _now(clock)]
             mk == (markers \ {old}) \cup {new}
         IN  /\ markers' = mk
             /\ snapshots' = AfterWrite(mk, operations, snapshots, entities, relations, clock,
                                        world_id, rebuild)
             /\ clock' = clock + 1
             /\ response' = [call |-> "update_marker", ok |-> TRUE,
                             marker |-> get_marker(mk, operations, world_id, marker_id)]
             /\ UNCHANGED <<operations, entities, relations>>

reposition_marker(world_id, marker_id, data, rebuild) ==
    IF _normalize_placement_status(data.placement_status) = Raises
    THEN Failed("reposition_marker", "ValueError")
    ELSE IF ~MarkerExists(markers, world_id, marker_id)
    THEN /\ response' = [call |-> "reposition_marker", ok |-> TRUE, marker |-> NoRow]
         /\ UNCHANGED <<markers, operations, snapshots, entities, relations, clock>>
    ELSE LET old == GetMarkerRow(markers, world_id, marker_id)
             new == [old EXCEPT
                        !.sort_key = data.sort_key,
                        !.placement_status = _normalize_placement_status(data.placement_status),
                        !.updated_at = _now(clock)]
             mk == (markers \ {old}) \cup {new}
         IN  /\ markers' = mk
             /\ snapshots' = AfterWrite(mk, operations, snapshots, entities, relations, clock,
                                        world_id, rebuild)
             /\ clock' = clock + 1
             /\ response' = [call |-> "reposition_marker", ok |-> TRUE,
                             marker |-> get_marker(mk, operations, world_id, marker_id)]
             /\ UNCHANGED <<operations, entities, relations>>

delete_marker(world_id, marker_id, rebuild) ==
    IF ~MarkerExists(markers, world_id, marker_id)
    THEN /\ response' = [call |-> "delete_marker", ok |-> TRUE, deleted |-> FALSE]
         /\ UNCHANGED <<markers, operations, snapshots, entities, relations, clock>>
    ELSE LET mk == markers \ {GetMarkerRow(markers, world_id, marker_id)}
             ops == IF foreign_keys THEN CascadeOperations(operations, marker_id)
                    ELSE operations
             snaps == IF foreign_keys THEN CascadeSnapshots(snapshots, marker_id)
                      ELSE snapshots
         IN  /\ markers' = mk
             /\ operations' = ops
             /\ snapshots' = AfterWrite(mk, ops, snaps,
                                        entities, relations, clock, world_id, rebuild)
             /\ clock' = clock + 1
             /\ response' = [call |-> "delete_marker", ok |-> TRUE, deleted |-> TRUE]
             /\ UNCHANGED <<entities, relations>>

create_operation(world_id, marker_id, body, rebuild, operation_id) ==
    LET data == TimelineOperationCreate(body)
        row == [id |-> operation_id,
                world_id |-> world_id,
                marker_id |-> marker_id,
                op_type |-> normalize_type(data.op_type),
                target_kind |-> _normalize_target_kind(data.target_kind),
                target_id |-> data.target_id,
                payload |-> data.payload,
                order_index |-> data.order_index,
                created_at |-> _now(clock),
                updated_at |-> _now(clock)]
        ops == operations \cup {row}
    IN  IF ~MarkerExists(markers, world_id, marker_id)
        THEN /\ response' = [call |-> "create_operation", ok |-> TRUE, operation |-> NoRow]
             /\ UNCHANGED <<markers, operations, snapshots, entities, relations, clock>>
        ELSE IF _normalize_target_kind(data.target_kind) = Raises
        THEN Failed("create_operation", "ValueError")
        ELSE /\ operations' = ops
             /\ snapshots' = AfterWrite(markers, ops, snapshots, entities, relations, clock,
                                        world_id, rebuild)
             /\ clock' = clock + 1
             /\ response' = [call |-> "create_operation", ok |-> TRUE, operation |-> row]
             /\ UNCHANGED <<markers, entities, relations>>

\* data: the non-null fields of the TimelineOperationUpdate body
update_operation(world_id, marker_id, operation_id, data, rebuild) ==
    IF ~OperationExists(operations, world_id, marker_id, operation_id)
    THEN /\ response' = [call |-> "update_operation", ok |-> TRUE, operation |-> NoRow]
         /\ UNCHANGED <<markers, operations, snapshots, entities, relations, clock>>
    ELSE IF "target_kind" \in DOMAIN data /\ _normalize_target_kind(data["target_kind"]) = Raises
    THEN Failed("update_operation", "ValueError")
    ELSE IF DOMAIN data = {}
    THEN /\ response' = [call |-> "update_operation", ok |-> TRUE,
                         operation |-> _get_operation(operations, world_id, marker_id, operation_id)]
         /\ UNCHANGED <<markers, operations, snapshots, entities, relations, clock>>
    ELSE LET old == _get_operation(operations, world_id, marker_id, operation_id)
             new == [old EXCEPT
                        !.op_type = IF "op_type" \in DOMAIN data
                                    THEN normalize_type(data["op_type"]) ELSE @,
                        !.target_kind = IF "target_kind" \in DOMAIN data
                                        THEN _normalize_target_kind(data["target_kind"]) ELSE @,
                        !.target_id = IF "target_id" \in DOMAIN data THEN data["target_id"] ELSE @,
                        !.payload = IF "payload" \in DOMAIN data THEN data["payload"] ELSE @,
                        !.order_index = IF "order_index" \in DOMAIN data
                                        THEN data["order_index"] ELSE @,
                        !.updated_at = _now(clock)]
             ops == (operations \ {old}) \cup {new}
         IN  /\ operations' = ops
             /\ snapshots' = AfterWrite(markers, ops, snapshots, entities, relations, clock,
                                        world_id, rebuild)
             /\ clock' = clock + 1
             /\ response' = [call |-> "update_operation", ok |-> TRUE, operation |-> new]
             /\ UNCHANGED <<markers, entities, relations>>

delete_operation(world_id, marker_id, operation_id, rebuild) ==
    IF ~OperationExists(operations, world_id, marker_id, operation_id)
    THEN /\ response' = [call |-> "delete_operation", ok |-> TRUE, deleted |-> FALSE]
         /\ UNCHANGED <<markers, operations, snapshots, entities, relations, clock>>
    ELSE LET ops == operations \ {_get_operation(operations, world_id, marker_id, operation_id)}
         IN  /\ operations' = ops
             /\ snapshots' = AfterWrite(markers, ops, snapshots, entities, relations, clock,
                                        world_id, rebuild)
             /\ clock' = clock + 1
             /\ response' = [call |-> "delete_operation", ok |-> TRUE, deleted |-> TRUE]
             /\ UNCHANGED <<markers, entities, relations>>

\* the snapshot table's foreign key to timeline_markers is declared in
\* database/init_db.sql: for a marker_id that names no marker the insert either
\* goes through or is rejected by the database
upsert_snapshot(world_id, marker_id, data) ==
    \/ /\ snapshots' = UpsertRow(snapshots, world_id, marker_id, data, clock)
       /\ clock' = clock + 1
       /\ response' = [call |-> "upsert_snapshot", ok |-> TRUE,
                       snapshot |-> get_snapshot(snapshots', world_id, marker_id)[1]]
       /\ UNCHANGED <<markers, operations, entities, relations>>
    \/ /\ ~MarkerExists(markers, world_id, marker_id)
       /\ Failed("upsert_snapshot", "IntegrityError")

generate_snapshot(world_id, marker_id) ==
    IF ~MarkerExists(markers, world_id, marker_id)
    THEN Failed("generate_snapshot", "ValueError")
    ELSE /\ snapshots' = GenerateRow(markers, operations, snapshots, entities, relations,
                                     clock, world_id, marker_id)
         /\ clock' = clock + 1
         /\ response' = [call |-> "generate_snapshot", ok |-> TRUE,
                         marker_id |-> marker_id,
                         snapshot |-> get_snapshot(snapshots', world_id, marker_id)[1]]
         /\ UNCHANGED <<markers, operations, entities, relations>>

rebuild_snapshots(world_id) ==
    /\ snapshots' = RebuildRows(markers, operations, snapshots, entities, relations,
                                clock, world_id)
    /\ clock' = clock + 1
    /\ response' = [call |-> "rebuild_snapshots", ok |-> TRUE,
                    world_id |-> world_id,
                    marker_count |-> Len(list_markers(markers, world_id)),
                    snapshot_count |-> Len(list_markers(markers, world_id))]
    /\ UNCHANGED <<markers, operations, entities, relations>>

\* the read: GET /{world_id}/state
read_world_state(world_id, marker_id, use_snapshot) ==
    /\ \E ws \in get_world_state(markers, operations, snapshots, entities, relations,
                                 clock, world_id, marker_id, use_snapshot) :
          response' = [call |-> "get_world_state", ok |-> ws.ok,
                       marker_id |-> marker_id, use_snapshot |-> use_snapshot, state |-> ws]
    /\ UNCHANGED <<markers, operations, snapshots, entities, relations, clock>>

\* ---------------------------------------------------- canonical graph store
CanonicalEntity(w, id, name) ==
    [id |-> id, world_id |-> w, name |-> name, type |-> "character", summary |-> None,
     status |-> "active", created_at |-> _now(0), updated_at |-> _now(0)]

CanonicalRelation(w, id, source, target) ==
    [id |-> id, world_id |-> w, source_entity_id |-> source, target_entity_id |-> target,
     type |-> "ally_of", weight |-> "0.5", created_at |-> _now(0), updated_at |-> _now(0)]

CanonicalEntities == {CanonicalEntity("w1", "e1", "Aldric"), CanonicalEntity("w1", "e2", "Brina")}
CanonicalRelations == {CanonicalRelation("w1", "r1", "e1", "e2")}

\* --------------------------------------------------------- request bodies
PatchKnighted ==
    [op_type |-> "entity_patch", target_kind |-> "entity", target_id |-> "e1",
     payload |-> [status |-> "knighted"]]
DeleteDeceased ==
    [op_type |-> "entity_delete", target_kind |-> "entity", target_id |-> "e1",
     payload |-> [status |-> "deceased"]]
CreateCyra ==
    [op_type |-> "entity_create", target_kind |-> "entity", target_id |-> "e3",
     payload |-> [name |-> "Cyra"]]

MarkerBodies ==
    {[marker_kind |-> "explicit", date_sort_value |-> Float(100), operations |-> <<PatchKnighted>>],
     [marker_kind |-> "explicit", date_sort_value |-> Float(200), operations |-> <<DeleteDeceased>>],
     [marker_kind |-> "semantic"]}

MarkerUpdates == {[sort_key |-> 150]}
MarkerRepositions == {[sort_key |-> 50, placement_status |-> "placed"]}
OperationBodies == {PatchKnighted, CreateCyra}
OperationUpdates == {[payload |-> [status |-> "exiled"]]}
SnapshotUpserts ==
    {[state_json |-> [entities |-> <<>>, relations |-> <<>>], state_hash |-> None,
      applied_marker_count |-> 0, entity_count |-> 0, relation_count |-> 0]}

\* ------------------------------------------------------------ specification
MarkerIds == {MarkerIdPool[i] : i \in 1..MaxMarkers}
OpIds == {OpIdPool[i] : i \in 1..MaxOps}
FreshMarkerIds == MarkerIds \ {m.id : m \in markers}
FreshOpIds == OpIds \ {o.id : o \in operations}

\* the sequences of n distinct fresh operation ids
FreshOpIdSeqs(n) ==
    {s \in [1..n -> FreshOpIds] : \A i, j \in 1..n : i # j => s[i] # s[j]}

Init ==
    /\ markers = {}
    /\ operations = {}
    /\ snapshots = <<>>
    /\ entities = CanonicalEntities
    /\ relations \in {{}, CanonicalRelations}
    /\ clock = 1
    /\ response = [call |-> "none", ok |-> TRUE]
    /\ calls = NoCalls

CreateMarker ==
    \E body \in MarkerBodies, marker_id \in FreshMarkerIds :
        \E operation_ids \in FreshOpIdSeqs(Len(DictGet(body, "operations", <<>>))) :
            /\ clock <= MaxClock
            /\ create_marker("w1", body, TRUE, marker_id, operation_ids)

StoredMarkerIds == {m.id : m \in markers}

UpdateMarker ==
    \E marker_id \in StoredMarkerIds, data \in MarkerUpdates :
        /\ clock <= MaxClock
        /\ update_marker("w1", marker_id, data, TRUE)

RepositionMarker ==
    \E marker_id \in StoredMarkerIds, data \in MarkerRepositions :
        /\ clock <= MaxClock
        /\ reposition_marker("w1", marker_id, data, TRUE)

DeleteMarker ==
    \E marker_id \in StoredMarkerIds :
        /\ clock <= MaxClock
        /\ delete_marker("w1", marker_id, TRUE)

CreateOperation ==
    \E marker_id \in StoredMarkerIds, body \in OperationBodies, operation_id \in FreshOpIds :
        /\ clock <= MaxClock
        /\ create_operation("w1", marker_id, body, TRUE, operation_id)

UpdateOperation ==
    \E o \in operations, data \in OperationUpdates :
        /\ clock <= MaxClock
        /\ update_operation("w1", o.marker_id, o.id, data, TRUE)

DeleteOperation ==
    \E o \in operations :
        /\ clock <= MaxClock
        /\ delete_operation("w1", o.marker_id, o.id, TRUE)

UpsertSnapshot ==
    \E marker_id \in MarkerIds, data \in SnapshotUpserts :
        /\ clock <= MaxClock
        /\ upsert_snapshot("w1", marker_id, data)

GenerateSnapshot ==
    \E marker_id \in MarkerIds :
        /\ clock <= MaxClock
        /\ generate_snapshot("w1", marker_id)

RebuildSnapshots ==
    /\ clock <= MaxClock
    /\ rebuild_snapshots("w1")

\* The calls that write. get_world_state writes nothing: what it would return in
\* a state is get_world_state(...) over that state's tables (WorldStates below).
Next ==
    \/ CreateMarker /\ Sequential
    \/ UpdateMarker /\ Sequential
    \/ RepositionMarker /\ Sequential
    \/ DeleteMarker /\ Sequential
    \/ CreateOperation /\ Sequential
    \/ UpdateOperation /\ Sequential
    \/ DeleteOperation /\ Sequential
    \/ UpsertSnapshot /\ Sequential
    \/ GenerateSnapshot /\ Sequential
    \/ RebuildSnapshots /\ Sequential

Spec == Init /\ [][Next]_vars

\* ------------------------------------- specification of the marker ordering
\* The marker store alone: markers are created without embedded operations,
\* updated, repositioned and deleted, each call with its default rebuild.
OrderBodies ==
    {[marker_kind |-> "explicit", date_sort_value |-> Float(100)],
     [marker_kind |-> "explicit", date_sort_value |-> Float(200)],
     [marker_kind |-> "semantic"],
     [marker_kind |-> "semantic", date_sort_value |-> Float(100)],
     [date_sort_value |-> Float(0 - 50)],
     [marker_kind |-> "explicit", date_sort_value |-> Float(100), sort_key |-> Float(150)]}
OrderUpdates == {[sort_key |-> 150], [date_sort_value |-> 300, marker_kind |-> "semantic"]}
OrderRepositions == {[sort_key |-> 100, placement_status |-> "placed"]}

OrderMarkerIds == {MarkerIdPool[i] : i \in 1..MaxOrderMarkers}

InitOrder ==
    /\ markers = {}
    /\ operations = {}
    /\ snapshots = <<>>
    /\ entities = CanonicalEntities
    /\ relations = CanonicalRelations
    /\ clock = 1
    /\ response = [call |-> "none", ok |-> TRUE]
    /\ calls = NoCalls

\* The marker calls are made with rebuild_snapshots=False: the snapshot table
\* plays no part in the ordering of markers, and Spec covers the calls made
\* with rebuild_snapshots=True.
OrderCreateMarker ==
    \E body \in OrderBodies, marker_id \in OrderMarkerIds \ StoredMarkerIds :
        /\ clock <= MaxOrderClock
        /\ create_marker("w1", body, FALSE, marker_id, <<>>)

OrderUpdateMarker ==
    \E marker_id \in StoredMarkerIds, data \in OrderUpdates :
        /\ clock <= MaxOrderClock
        /\ update_marker("w1", marker_id, data, FALSE)

OrderRepositionMarker ==
    \E marker_id \in StoredMarkerIds, data \in OrderRepositions :
        /\ clock <= MaxOrderClock
        /\ reposition_marker("w1", marker_id, data, FALSE)

OrderDeleteMarker ==
    \E marker_id \in StoredMarkerIds :
        /\ clock <= MaxOrderClock
        /\ delete_marker("w1", marker_id, FALSE)

NextOrder ==
    \/ OrderCreateMarker /\ Sequential
    \/ OrderUpdateMarker /\ Sequential
    \/ OrderRepositionMarker /\ Sequential
    \/ OrderDeleteMarker /\ Sequential

SpecOrder == InitOrder /\ [][NextOrder]_vars

\* ------------------------------------------------- replay specification
\* Two explicit markers m1 (sort_key 100) and m2 (sort_key 200) stand, made by
\* two create_marker calls with rebuild_snapshots=False; operations are then
\* attached to them one call at a time and the world state is read at each
\* marker and at the present.
ReplayMarker(id, key, t) ==
    [id |-> id, world_id |-> "w1", marker_kind |-> "explicit",
     placement_status |-> "placed", date_sort_value |-> Float(key), sort_key |-> key,
     created_at |-> _now(t), updated_at |-> _now(t)]

CreateAldric ==
    [op_type |-> "entity_create", target_kind |-> "entity", target_id |-> "e1"]
CreateByPayloadId ==
    [op_type |-> "entity_create", target_kind |-> "entity", payload |-> [id |-> "e1"]]
DeleteCyra ==
    [op_type |-> "entity_delete", target_kind |-> "entity", target_id |-> "e3"]

ReplayBodies ==
    {PatchKnighted, DeleteDeceased, CreateAldric, CreateByPayloadId, CreateCyra, DeleteCyra}
ReplayTargets == {"m1", "m2", None}

InitReplay ==
    /\ markers = {ReplayMarker("m1", 100, 1), ReplayMarker("m2", 200, 2)}
    /\ operations = {}
    /\ snapshots = <<>>
    /\ entities = CanonicalEntities
    /\ relations = CanonicalRelations
    /\ clock = 3
    /\ response = [call |-> "none", ok |-> TRUE]
    /\ calls = NoCalls

\* the id drawn for the new operation: ids break no tie here, every operation
\* having its own created_at
ReplayCreateOperation ==
    \E marker_id \in StoredMarkerIds, body \in ReplayBodies :
        /\ Cardinality(operations) < MaxLogOps
        /\ create_operation("w1", marker_id, body, FALSE,
                            OpIdPool[Cardinality(operations) + 1])

ReplayGetWorldState ==
    \E marker_id \in ReplayTargets :
        read_world_state("w1", marker_id, TRUE)

NextReplay ==
    \/ ReplayCreateOperation /\ Sequential
    \/ ReplayGetWorldState /\ Sequential

SpecReplay == InitReplay /\ [][NextReplay]_vars

\* ------------------------------------------ specification of the write boundary
\* Markers and operations are written with well-formed and ill-formed request
\* bodies, each call with its default rebuild_snapshots=True.
BadKind ==
    [op_type |-> "entity_patch", target_kind |-> "faction", target_id |-> "e1",
     payload |-> [status |-> "exiled"]]
AddCyra ==
    [op_type |-> "entity_add", target_kind |-> "entity", target_id |-> "e3",
     payload |-> [name |-> "Cyra"]]
RenameAldric ==
    [op_type |-> "entity_rename", target_kind |-> "entity", target_id |-> "e1",
     payload |-> [name |-> "Cyra"]]

WriteMarkerBodies ==
    {[marker_kind |-> "explicit", date_sort_value |-> Float(100), operations |-> <<PatchKnighted>>],
     [marker_kind |-> "era"],
     [placement_status |-> "floating"],
     [operations |-> <<PatchKnighted, BadKind>>],
     [operations |-> <<AddCyra>>],
     [operations |-> <<RenameAldric>>]}
WriteMarkerUpdates ==
    {[marker_kind |-> "era"], [placement_status |-> "floating"], [marker_kind |-> "semantic"]}
WriteRepositions ==
    {[sort_key |-> 50, placement_status |-> "floating"],
     [sort_key |-> 50, placement_status |-> "unplaced"]}
WriteOperationBodies == {PatchKnighted, BadKind, AddCyra, RenameAldric}
WriteOperationUpdates ==
    {[target_kind |-> "faction"], [op_type |-> "entity_modify"],
     [op_type |-> "entity_rename"], [op_type |-> "entity_delete"]}

\* the ids the next call draws: no call of this specification deletes a row and
\* rows written by different calls differ in created_at, so ids break no tie
NextMarkerId == MarkerIdPool[Cardinality(markers) + 1]
NextOpIds(n) == [i \in 1..n |-> OpIdPool[Cardinality(operations) + i]]

InitWrite ==
    /\ markers = {}
    /\ operations = {}
    /\ snapshots = <<>>
    /\ entities = CanonicalEntities
    /\ relations = {}
    /\ clock = 1
    /\ response = [call |-> "none", ok |-> TRUE]
    /\ calls = NoCalls

\* one call of each writing method, with the ids it draws
CreateMarkerCall(body) ==
    /\ clock <= MaxWriteClock
    /\ Cardinality(markers) < MaxWriteMarkers
    /\ Cardinality(operations) + Len(DictGet(body, "operations", <<>>)) <= MaxWriteOps
    /\ create_marker("w1", body, TRUE, NextMarkerId,
                     NextOpIds(Len(DictGet(body, "operations", <<>>))))

UpdateMarkerCall(marker_id, data) ==
    /\ clock <= MaxWriteClock
    /\ update_marker("w1", marker_id, data, TRUE)

RepositionMarkerCall(marker_id, data) ==
    /\ clock <= MaxWriteClock
    /\ reposition_marker("w1", marker_id, data, TRUE)

CreateOperationCall(marker_id, body) ==
    /\ clock <= MaxWriteClock
    /\ Cardinality(operations) < MaxWriteOps
    /\ create_operation("w1", marker_id, body, TRUE, NextOpIds(1)[1])

UpdateOperationCall(o, data) ==
    /\ clock <= MaxWriteClock
    /\ update_operation("w1", o.marker_id, o.id, data, TRUE)

WriteCreateMarker == \E body \in WriteMarkerBodies : CreateMarkerCall(body)

WriteUpdateMarker ==
    \E marker_id \in StoredMarkerIds, data \in WriteMarkerUpdates : UpdateMarkerCall(marker_id, data)

WriteRepositionMarker ==
    \E marker_id \in StoredMarkerIds, data \in WriteRepositions :
        RepositionMarkerCall(marker_id, data)

WriteCreateOperation ==
    \E marker_id \in StoredMarkerIds, body \in WriteOperationBodies :
        CreateOperationCall(marker_id, body)

WriteUpdateOperation ==
    \E o \in operations, data \in WriteOperationUpdates : UpdateOperationCall(o, data)

NextWrite ==
    \/ WriteCreateMarker /\ Sequential
    \/ WriteUpdateMarker /\ Sequential
    \/ WriteRepositionMarker /\ Sequential
    \/ WriteCreateOperation /\ Sequential
    \/ WriteUpdateOperation /\ Sequential

SpecWrite == InitWrite /\ [][NextWrite]_vars

\* ------------------------------------------------ specification of two worlds
\* Two worlds share the tables. Each call is made for one world and may name
\* any stored marker, its own world's or the other's, or none that is stored.
Worlds == {"w1", "w2"}
WorldsEntities == CanonicalEntities \cup {CanonicalEntity("w2", "e3", "Cyra")}
WorldsMarkerBodies ==
    {[marker_kind |-> "explicit", date_sort_value |-> Float(100), operations |-> <<PatchKnighted>>],
     [marker_kind |-> "semantic"]}
WorldsOperationBodies == {DeleteDeceased}

\* the first ids of the pools that no stored row bears
UnusedMarkerId == MarkerIdPool[CHOOSE i \in 1..Len(MarkerIdPool) :
                                  /\ MarkerIdPool[i] \notin StoredMarkerIds
                                  /\ \A j \in 1..(i - 1) : MarkerIdPool[j] \in StoredMarkerIds]
UnusedOpId == OpIdPool[CHOOSE i \in 1..Len(OpIdPool) :
                          /\ \A o \in operations : o.id # OpIdPool[i]
                          /\ \A j \in 1..(i - 1) : \E o \in operations : o.id = OpIdPool[j]]
NamedMarkerIds == StoredMarkerIds \cup {UnusedMarkerId}

\* the rows two create_marker calls have stored, one per world, each with an
\* embedded entity_patch and its rebuild
WorldsMarker(w, id, t) ==
    [id |-> id, world_id |-> w, marker_kind |-> "explicit", placement_status |-> "placed",
     date_sort_value |-> Float(100), sort_key |-> 100,
     created_at |-> _now(t), updated_at |-> _now(t)]
WorldsOperation(w, id, marker_id, t) ==
    [id |-> id, world_id |-> w, marker_id |-> marker_id, op_type |-> "entity_patch",
     target_kind |-> "entity", target_id |-> "e1", payload |-> [status |-> "knighted"],
     order_index |-> 0, created_at |-> _now(t), updated_at |-> _now(t)]
WorldsInitMarkers == {WorldsMarker("w1", "m1", 1), WorldsMarker("w2", "m2", 2)}
WorldsInitOperations ==
    {WorldsOperation("w1", "o1", "m1", 1), WorldsOperation("w2", "o2", "m2", 2)}

InitWorlds ==
    /\ markers = WorldsInitMarkers
    /\ operations = WorldsInitOperations
    /\ snapshots =
          RebuildRows(WorldsInitMarkers, WorldsInitOperations,
                      RebuildRows({WorldsMarker("w1", "m1", 1)},
                                  {WorldsOperation("w1", "o1", "m1", 1)},
                                  <<>>, WorldsEntities, CanonicalRelations, 1, "w1"),
                      WorldsEntities, CanonicalRelations, 2, "w2")
    /\ entities = WorldsEntities
    /\ relations = CanonicalRelations
    /\ clock = 3
    /\ response = [call |-> "none", ok |-> TRUE]
    /\ calls = NoCalls

WorldsCreateMarker(w) ==
    \E body \in WorldsMarkerBodies :
        /\ clock <= MaxWorldsClock
        /\ Cardinality(markers) < MaxWorldsMarkers
        /\ Cardinality(operations) < MaxWorldsOps
        /\ create_marker(w, body, TRUE, UnusedMarkerId,
                         [i \in 1..Len(DictGet(body, "operations", <<>>)) |-> UnusedOpId])

WorldsCreateOperation(w) ==
    \E marker_id \in NamedMarkerIds, body \in WorldsOperationBodies :
        /\ clock <= MaxWorldsClock
        /\ Cardinality(operations) < MaxWorldsOps
        /\ create_operation(w, marker_id, body, TRUE, UnusedOpId)

WorldsDeleteMarker(w) ==
    \E marker_id \in NamedMarkerIds :
        /\ clock <= MaxWorldsClock
        /\ delete_marker(w, marker_id, TRUE)

WorldsGenerateSnapshot(w) ==
    \E marker_id \in NamedMarkerIds :
        /\ clock <= MaxWorldsClock
        /\ generate_snapshot(w, marker_id)

WorldsRebuildSnapshots(w) ==
    /\ clock <= MaxWorldsClock
    /\ rebuild_snapshots(w)

WorldsGetWorldState(w) ==
    \E marker_id \in NamedMarkerIds \cup {None}, use_snapshot \in BOOLEAN :
        read_world_state(w, marker_id, use_snapshot)

\* the TimelineService calls made for world w
CallOn(w) ==
    \/ WorldsCreateMarker(w)
    \/ WorldsCreateOperation(w)
    \/ WorldsDeleteMarker(w)
    \/ WorldsGenerateSnapshot(w)
    \/ WorldsRebuildSnapshots(w)
    \/ WorldsGetWorldState(w)

NextWorlds ==
    \E w \in Worlds :
        \/ WorldsCreateMarker(w) /\ Sequential
        \/ WorldsCreateOperation(w) /\ Sequential
        \/ WorldsDeleteMarker(w) /\ Sequential
        \/ WorldsGenerateSnapshot(w) /\ Sequential
        \/ WorldsRebuildSnapshots(w) /\ Sequential
        \/ WorldsGetWorldState(w) /\ Sequential

SpecWorlds == InitWorlds /\ [][NextWorlds]_vars

\* =================================================================== claims
\* what a reader compares of two world states
Content(ws) ==
    [entities |-> ws.entities,
     relations |-> ws.relations,
     applied_marker_count |-> ws.applied_marker_count]

WorldStates(marker_id, use_snapshot) ==
    get_world_state(markers, operations, snapshots, entities, relations, clock,
                    "w1", marker_id, use_snapshot)

\* calls that end with a completed rebuild_snapshots of the world
WriteCalls == {"create_marker", "update_marker", "reposition_marker", "delete_marker",
               "create_operation", "update_operation", "delete_operation"}

\* C1: after a marker or operation write made with the default
\* rebuild_snapshots=True, for every marker the world state served through the
\* snapshot cache has the same entities, relations (all field values) and
\* applied_marker_count as the full replay with use_snapshot=False.
C1_CacheEqualsReplay ==
    (response.call \in WriteCalls /\ response.ok) =>
        \A m \in markers :
            \A cached \in WorldStates(m.id, TRUE), replayed \in WorldStates(m.id, FALSE) :
                Content(cached) = Content(replayed)

\* the state_json generate_snapshot computes for marker_id at time t over the
\* stored markers, operations and canonical rows
GeneratedAt(marker_id, t) ==
    _state_json_from_world_state(
        CHOOSE ws \in get_world_state(markers, operations, snapshots, entities, relations,
                                      t, "w1", marker_id, FALSE) : TRUE)

\* C2: a generate_snapshot(world, M) call that follows an earlier
\* generate_snapshot(world, M) with no write to markers, operations or the
\* canonical store in between (the stored row is what generate_snapshot
\* computed from the present log) stores the same state_json and state_hash.
C2_GenerateSnapshotIdempotent ==
    [][\A marker_id \in MarkerIds :
        LET before == get_snapshot(snapshots, "w1", marker_id)
            after == get_snapshot(snapshots', "w1", marker_id)
        IN  ( /\ response'.call = "generate_snapshot"
              /\ response'.ok
              /\ response'.marker_id = marker_id
              /\ clock' = clock + 1
              /\ before # <<>>
              /\ "entities" \in DOMAIN before[1].state_json
              /\ before[1].state_json = GeneratedAt(marker_id, before[1].updated_at[2]) )
            => /\ after[1].state_json = before[1].state_json
               /\ after[1].state_hash = before[1].state_hash]_vars

\* the state a get_world_state call has just returned, and the sort_key of its
\* target marker (NoFloat for the present)
Returned == response.call = "get_world_state" /\ response.ok
TargetKey == IF Truthy(response.marker_id)
             THEN _marker_sort_key(markers, "w1", response.marker_id)
             ELSE NoFloat

\* the operations of the log in replay order, and the entity an entity
\* operation is applied to (operation.target_id or payload.get("id"))
Log == _list_operations_up_to(markers, operations, "w1", NoFloat)
EntityOf(o) == IF Truthy(o.target_id) THEN o.target_id ELSE PayloadGet(o.payload, "id")
IsEntityOp(o, op_types) ==
    normalize_type(o.target_kind) = "entity" /\ normalize_type(o.op_type) \in op_types
\* the operation's marker lies at or before the target of the read
AtOrBeforeTarget(o) ==
    TargetKey = NoFloat \/ MarkerOf(markers, o).sort_key <= TargetKey[1]

\* C3: when the first entity_create of entity E is attached to marker M2, a
\* world state read at a target before M2 (target sort_key < M2.sort_key) lists
\* E with exists_at_marker = false, and one read at a target at or after M2,
\* with no entity_delete of E after the create and at or before the target,
\* lists E with exists_at_marker = true.
C3_ExistenceMonotone ==
    Returned =>
        \A E \in Range(EntityIdPool) :
            LET creates == {i \in 1..Len(Log) :
                               IsEntityOp(Log[i], entity_create_ops) /\ EntityOf(Log[i]) = E}
                first == CHOOSE i \in creates : \A j \in creates : i <= j
                M2 == MarkerOf(markers, Log[first])
                deleted == \E j \in (first + 1)..Len(Log) :
                               /\ IsEntityOp(Log[j], entity_delete_ops)
                               /\ EntityOf(Log[j]) = E
                               /\ AtOrBeforeTarget(Log[j])
                listed == {e \in Range(response.state.entities) : e.id = E}
            IN  creates # {} =>
                    /\ (TargetKey # NoFloat /\ TargetKey[1] < M2.sort_key) =>
                            \A e \in listed : e.exists_at_marker = FALSE
                    /\ (AtOrBeforeTarget(Log[first]) /\ ~deleted) =>
                            \A e \in listed : e.exists_at_marker = TRUE

\* C4: when entity E is deleted by an entity_delete at a marker at or before
\* the target of a read (and the read lists E as not existing), every relation
\* the read lists with E as its source or target reports
\* exists_at_marker = false.
C4_RelationFollowsEntityDelete ==
    Returned =>
        \A e \in Range(response.state.entities) :
            ( /\ e.exists_at_marker = FALSE
              /\ \E i \in 1..Len(Log) : /\ IsEntityOp(Log[i], entity_delete_ops)
                                        /\ EntityOf(Log[i]) = e.id
                                        /\ AtOrBeforeTarget(Log[i]) )
            => \A r \in Range(response.state.relations) :
                   (r.source_entity_id = e.id \/ r.target_entity_id = e.id) =>
                       /\ "exists_at_marker" \in DOMAIN r
                       /\ r["exists_at_marker"] = FALSE

\* the entities get_world_state lists for the target of the last read over the
\* operations ops and the stored markers and canonical rows
EntitiesOver(ops) ==
    Replay(markers, ops, entities, relations, clock, "w1", TargetKey).entities

\* C5: when the last operation on a known entity E at or before the target of
\* a read is an entity_delete d, the read still lists E, with
\* exists_at_marker = false, with status the delete payload's status when one
\* is given, and with every other field at the value it has in the projection
\* of the log without d.
C5_DeleteIsTombstone ==
    (Returned /\ response.state = [response.state EXCEPT !.entities = EntitiesOver(operations)]) =>
        \A i \in 1..Len(Log) :
            LET d == Log[i]
                E == EntityOf(d)
                last == /\ IsEntityOp(d, entity_delete_ops)
                        /\ AtOrBeforeTarget(d)
                        /\ \A j \in (i + 1)..Len(Log) :
                               ~(normalize_type(Log[j].target_kind) = "entity"
                                 /\ EntityOf(Log[j]) = E /\ AtOrBeforeTarget(Log[j]))
                without == EntitiesOver(operations \ {d})
                known == InMap(without, E)
                before == without[IndexOf(without, E)]
                after == response.state.entities[IndexOf(response.state.entities, E)]
                given == "status" \in DOMAIN d.payload /\ PayloadGet(d.payload, "status") # None
            IN  (last /\ known) =>
                    /\ InMap(response.state.entities, E)
                    /\ after.exists_at_marker = FALSE
                    /\ given => after.status = d.payload["status"]
                    /\ \A f \in DOMAIN after \ ({"exists_at_marker"} \cup
                                               IF given THEN {"status"} ELSE {}) :
                           after[f] = before[f]

\* C6: with at least one marker, the present (marker_id = None) has the same
\* entities, relations and applied_marker_count as get_world_state at the last
\* marker of list_markers.
C6_PresentEqualsLastMarker ==
    markers # {} =>
        LET listed == list_markers(markers, "w1")
            last == listed[Len(listed)]
        IN  \A present \in WorldStates(None, TRUE), at_last \in WorldStates(last.id, TRUE) :
                Content(present) = Content(at_last)

StoredMarkerKeys == {snapshots[i].marker_id : i \in {j \in 1..Len(snapshots) : snapshots[j].world_id = "w1"}}
StoredCount == Cardinality({j \in 1..Len(snapshots) : snapshots[j].world_id = "w1"})

\* C7: when rebuild_snapshots returns, the snapshots stored for the world are
\* exactly one per existing marker and none for another marker id, and the
\* returned snapshot_count equals the returned marker_count and the number of
\* snapshots stored.
C7_RebuildComplete ==
    response.call = "rebuild_snapshots" =>
        /\ StoredMarkerKeys = {m.id : m \in markers}
        /\ StoredCount = Cardinality(markers)
        /\ response.snapshot_count = response.marker_count
        /\ response.snapshot_count = StoredCount

C7_Witness ==
    /\ response.call = "rebuild_snapshots"
    /\ markers # {}
    /\ StoredCount = Cardinality(markers)

\* C8: there is at most one stored snapshot per (world_id, marker_id).
C8_OneSnapshotPerKey ==
    \A i, j \in 1..Len(snapshots) :
        (snapshots[i].world_id = snapshots[j].world_id
         /\ snapshots[i].marker_id = snapshots[j].marker_id) => i = j

\* an upsert has overwritten the row that was there
C8_Witness ==
    /\ response.call = "upsert_snapshot"
    /\ response.ok
    /\ response.snapshot.created_at # response.snapshot.updated_at

\* the (sort_key, created_at, id) key of a marker row compared as SQLite does
KeyBefore(a, b) ==
    \/ a.sort_key < b.sort_key
    \/ a.sort_key = b.sort_key /\ a.created_at[2] < b.created_at[2]
    \/ a.sort_key = b.sort_key /\ a.created_at = b.created_at
       /\ TextRank(a.id) < TextRank(b.id)

\* C9: list_markers returns the world's markers in ascending
\* (sort_key, created_at, id) order; no two markers compare equal, and the list
\* is a permutation of the stored markers.
C9_ListMarkersTotalOrder ==
    LET listed == list_markers(markers, "w1")
    IN  /\ Len(listed) = Cardinality(markers)
        /\ {listed[i] : i \in 1..Len(listed)} = markers
        /\ \A i, j \in 1..Len(listed) : i < j => KeyBefore(listed[i], listed[j])
        /\ \A a, b \in markers : a # b => (KeyBefore(a, b) \/ KeyBefore(b, a))

\* two markers share a sort_key and the one created first is listed first,
\* before a marker created earlier than both
C9_Witness ==
    LET listed == list_markers(markers, "w1")
    IN  /\ Len(listed) = 3
        /\ listed[1].sort_key = listed[2].sort_key
        /\ listed[1].created_at[2] < listed[2].created_at[2]
        /\ listed[3].created_at[2] < listed[2].created_at[2]

\* the greatest of a set of sort keys, 0 for none (COALESCE(MAX(sort_key), 0))
MaxKey(keys) == IF keys = {} THEN 0 ELSE CHOOSE k \in keys : \A j \in keys : j <= k

\* C10: create_marker without sort_key gives an explicit marker with a
\* date_sort_value that value as sort_key; every other marker gets the
\* greatest sort_key of the markers that existed plus one and is listed after
\* all of them.
C10_DefaultSortKey ==
    (response.call = "create_marker" /\ response.ok
     /\ "sort_key" \notin DOMAIN response.body) =>
        LET new == GetMarkerRow(markers, "w1", response.marker.id)
            others == markers \ {new}
            dated == /\ normalize_type(DictGet(response.body, "marker_kind", "explicit")) = "explicit"
                     /\ "date_sort_value" \in DOMAIN response.body
            listed == list_markers(markers, "w1")
        IN  /\ dated => new.sort_key = response.body["date_sort_value"][1]
            /\ ~dated => /\ new.sort_key = MaxKey({m.sort_key : m \in others}) + 1
                         /\ listed[Len(listed)] = new

\* explicit 100, explicit 200, then a semantic marker listed after both
C10_Witness ==
    LET listed == list_markers(markers, "w1")
    IN  /\ response.call = "create_marker"
        /\ response.ok
        /\ Len(listed) = 3
        /\ listed[1].marker_kind = "explicit" /\ listed[1].sort_key = 100
        /\ listed[2].marker_kind = "explicit" /\ listed[2].sort_key = 200
        /\ listed[3].marker_kind = "semantic" /\ listed[3].sort_key = 201
        /\ listed[3].id = response.marker.id

\* ------------------------------------------------------- the write boundary
\* an enum field of a request body outside its closed set
BadMarkerKind(d) ==
    "marker_kind" \in DOMAIN d /\ normalize_type(d["marker_kind"]) \notin VALID_MARKER_KINDS
BadPlacementStatus(d) ==
    "placement_status" \in DOMAIN d
    /\ normalize_type(d["placement_status"]) \notin VALID_PLACEMENT_STATUSES
BadTargetKind(d) ==
    "target_kind" \in DOMAIN d /\ normalize_type(d["target_kind"]) \notin VALID_TARGET_KINDS
BadEmbeddedKind(body) ==
    \E i \in 1..Len(DictGet(body, "operations", <<>>)) : BadTargetKind(body["operations"][i])

StoreUnchanged == UNCHANGED <<markers, operations, snapshots>>
\* the call raised ValueError and wrote nothing
Rejected == response'.ok = FALSE /\ response'.error = "ValueError" /\ StoreUnchanged

CanonicalVerbs ==
    {"entity_create", "entity_patch", "entity_delete",
     "relation_create", "relation_patch", "relation_delete", "world_patch"}
LegacyAliases ==
    (entity_create_ops \cup entity_update_ops \cup entity_delete_ops \cup relation_create_ops
        \cup relation_update_ops \cup relation_delete_ops) \ CanonicalVerbs

\* C12: no call of create_marker, create_operation or update_operation writes
\* an operation whose op_type is neither a canonical verb nor a legacy alias:
\* such a call is rejected.
C12_UnsupportedOpTypeRejected ==
    \A o \in operations : normalize_type(o.op_type) \in CanonicalVerbs \cup LegacyAliases

\* C13: every stored operation has a canonical verb as its op_type.
C13_StoredOpTypeCanonical ==
    \A o \in operations : o.op_type \in CanonicalVerbs

\* ------------------------------------------------------------- two worlds
\* C14: get_world_state and generate_snapshot called with a marker id that
\* names no marker of the given world (one stored for the other world
\* included) fail with the not-found ValueError and leave markers, operations
\* and snapshots unchanged.
C14_UnknownMarkerNotFound ==
    [][\A w \in Worlds, marker_id \in NamedMarkerIds :
          ~MarkerExists(markers, w, marker_id) =>
              /\ (clock <= MaxWorldsClock /\ generate_snapshot(w, marker_id)) => Rejected
              /\ \A use_snapshot \in BOOLEAN :
                    read_world_state(w, marker_id, use_snapshot)
                    => /\ response'.ok = FALSE
                       /\ response'.state.error = "ValueError"
                       /\ StoreUnchanged]_vars

\* a read has just failed for a marker id that is stored for the other world
C14_Witness ==
    /\ response.call = "get_world_state"
    /\ response.ok = FALSE
    /\ \E m \in markers : m.id = response.marker_id

\* the rows of one world
MarkersOf(w) == {m \in markers : m.world_id = w}
OperationsOf(w) == {o \in operations : o.world_id = w}
SnapshotsOf(w) ==
    LET Own(row) == row.world_id = w
    IN  SelectSeq(snapshots, Own)
EntitiesOf(w) == {e \in entities : e.world_id = w}
RelationsOf(w) == {r \in relations : r.world_id = w}

\* every read of world w returns what it returns over the rows of w alone
PartitionedRead ==
    \A w \in Worlds, use_snapshot \in BOOLEAN :
        \A marker_id \in {m.id : m \in MarkersOf(w)} \cup {None} :
            get_world_state(markers, operations, snapshots, entities, relations, clock,
                            w, marker_id, use_snapshot)
            = get_world_state(MarkersOf(w), OperationsOf(w), SnapshotsOf(w), EntitiesOf(w),
                              RelationsOf(w), clock, w, marker_id, use_snapshot)

C20_DeleteMarkerCascades ==
    [][/\ \A w \in Worlds, M \in StoredMarkerIds :
            ( /\ clock <= MaxWorldsClock
              /\ delete_marker(w, M, TRUE)
              /\ response'.deleted )
            => /\ \A o \in operations' : o.marker_id # M
               /\ \A i \in 1..Len(snapshots') : snapshots'[i].marker_id # M
               /\ \A key \in {NoFloat} \cup {Float(m.sort_key) : m \in markers'} :
                     \A o \in Range(_list_operations_up_to(markers', operations', w, key)) :
                         o.marker_id # M
       /\ \A o \in operations' :
             \E m \in markers' : m.id = o.marker_id /\ m.world_id = o.world_id]_vars

\* delete_marker has just removed a marker and another marker still holds an
\* operation
C20_Witness ==
    /\ response.call = "delete_marker"
    /\ response.deleted
    /\ operations # {}

\* ------------------------------------------ reads over damaged snapshots
\* the state_json objects of the wrong shape a client can PUT
WrongShapes ==
    {[relations |-> <<>>],
     [entities |-> JsonObjectValue, relations |-> <<>>],
     [entities |-> <<>>, relations |-> JsonObjectValue],
     [entities |-> <<[id |-> "e1"]>>, relations |-> <<>>]}

\* TimelineSnapshotUpsert(state_json=...), the other fields at their defaults
CorruptUpserts ==
    {[state_json |-> shape, state_hash |-> None, applied_marker_count |-> 0,
      entity_count |-> 0, relation_count |-> 0] : shape \in WrongShapes}

\* a state_json column the storage has damaged: a text json.loads rejects, and
\* a JSON text that is not an object
DamagedTexts == {<<"text", "{oops">>, json_dumps(JsonListValue)}

CorruptTexts == DamagedTexts \cup {json_dumps(shape) : shape \in WrongShapes}

CorruptMarkers == {ReplayMarker("m1", 100, 1), ReplayMarker("m2", 200, 2)}
CorruptOperations == {WorldsOperation("w1", "o1", "m1", 1)}

InitCorrupt ==
    /\ markers = CorruptMarkers
    /\ operations = CorruptOperations
    /\ entities = CanonicalEntities
    /\ relations \in {{}, CanonicalRelations}
    /\ snapshots = RebuildRows(CorruptMarkers, CorruptOperations, <<>>, entities,
                               relations, 2, "w1")
    /\ clock = 3
    /\ response = [call |-> "none", ok |-> TRUE]
    /\ calls = NoCalls

CorruptUpsertSnapshot ==
    \E marker_id \in NamedMarkerIds, data \in CorruptUpserts :
        /\ clock <= MaxCorruptClock
        /\ upsert_snapshot("w1", marker_id, data)

\* the storage damages the state_json text of one snapshot row
DamageSnapshot ==
    \E i \in 1..Len(snapshots), text \in DamagedTexts :
        /\ snapshots[i].state_json # text
        /\ snapshots' = [snapshots EXCEPT ![i].state_json = text]
        /\ UNCHANGED <<markers, operations, entities, relations, clock, response>>

CorruptRebuildSnapshots ==
    /\ clock <= MaxCorruptClock
    /\ rebuild_snapshots("w1")

CorruptGetWorldState ==
    \E marker_id \in StoredMarkerIds, use_snapshot \in BOOLEAN :
        read_world_state("w1", marker_id, use_snapshot)

NextCorrupt ==
    \/ CorruptUpsertSnapshot /\ Sequential
    \/ DamageSnapshot /\ Sequential
    \/ CorruptRebuildSnapshots /\ Sequential
    \/ CorruptGetWorldState /\ Sequential

SpecCorrupt == InitCorrupt /\ [][NextCorrupt]_vars

\* C15: when the snapshot stored for marker M is corrupt or of the wrong shape,
\* get_world_state(world, M) with snapshots enabled raises no error and returns
\* exactly what it returns with use_snapshot=False.
C15_CorruptSnapshotFallsBack ==
    \A i \in 1..Len(snapshots) :
        ( /\ snapshots[i].world_id = "w1"
          /\ snapshots[i].state_json \in CorruptTexts
          /\ MarkerExists(markers, "w1", snapshots[i].marker_id) )
        => /\ \A ws \in get_world_state(markers, operations, snapshots, entities, relations,
                                        clock, "w1", snapshots[i].marker_id, TRUE) : ws.ok
           /\ get_world_state(markers, operations, snapshots, entities, relations,
                              clock, "w1", snapshots[i].marker_id, TRUE)
              = get_world_state(markers, operations, snapshots, entities, relations,
                                clock, "w1", snapshots[i].marker_id, FALSE)

\* ------------------------------- the writers that do not rebuild snapshots
\* LoreEntityService.update_entity: the given fields and updated_at are
\* written to the canonical row; None for an unknown entity, the row as it is
\* for an empty update
update_entity(world_id, entity_id, data) ==
    LET Hit(e) == e.world_id = world_id /\ e.id = entity_id
        Updated(e) ==
            [f \in DOMAIN e |->
                IF f \in DOMAIN data
                THEN IF f = "type" THEN normalize_type(data[f]) ELSE data[f]
                ELSE IF f = "updated_at" THEN _now(clock)
                ELSE e[f]]
    IN  IF ~\E e \in entities : Hit(e)
        THEN /\ response' = [call |-> "update_entity", ok |-> TRUE, entity |-> NoRow]
             /\ UNCHANGED <<markers, operations, snapshots, entities, relations, clock>>
        ELSE IF DOMAIN data = {}
        THEN /\ response' = [call |-> "update_entity", ok |-> TRUE,
                             entity |-> CHOOSE e \in entities : Hit(e)]
             /\ UNCHANGED <<markers, operations, snapshots, entities, relations, clock>>
        ELSE /\ entities' = {IF Hit(e) THEN Updated(e) ELSE e : e \in entities}
             /\ clock' = clock + 1
             /\ response' = [call |-> "update_entity", ok |-> TRUE,
                             entity |-> Updated(CHOOSE e \in entities : Hit(e))]
             /\ UNCHANGED <<markers, operations, snapshots, relations>>

\* LoreEntityService.delete_entity: rowcount > 0 is returned
delete_entity(world_id, entity_id) ==
    LET Hit(e) == e.world_id = world_id /\ e.id = entity_id
    IN  /\ entities' = {e \in entities : ~Hit(e)}
        /\ response' = [call |-> "delete_entity", ok |-> TRUE,
                        deleted |-> \E e \in entities : Hit(e)]
        /\ UNCHANGED <<markers, operations, snapshots, relations, clock>>

\* _resolve_marker_for_timeline_action: the marker the payload names, else the
\* last placed marker, else the last created one; None when there is none
_resolve_marker_for_timeline_action(mk, world_id, payload) ==
    LET own == {m \in mk : m.world_id = world_id}
        placed == {m \in own : m.placement_status = "placed"}
        Later(a, b) == \/ a.created_at[2] > b.created_at[2]
                       \/ a.created_at[2] = b.created_at[2] /\ TextRank(a.id) > TextRank(b.id)
        After(a, b) == a.sort_key > b.sort_key \/ (a.sort_key = b.sort_key /\ Later(a, b))
    IN  IF Truthy(DictGet(payload, "marker_id", None))
        THEN IF MarkerExists(mk, world_id, payload.marker_id) THEN payload.marker_id ELSE None
        ELSE IF placed # {}
        THEN (CHOOSE m \in placed : \A o \in placed \ {m} : After(m, o)).id
        ELSE IF own # {}
        THEN (CHOOSE m \in own : \A o \in own \ {m} : Later(m, o)).id
        ELSE None

\* CanonMechanicService._apply_timeline_operation, committed by accept_options:
\* the operation is inserted at the end of the marker and no snapshot is rebuilt
_apply_timeline_operation(world_id, payload, operation_id) ==
    LET marker_id == _resolve_marker_for_timeline_action(markers, world_id, payload)
        op_type == normalize_type(DictGet(payload, "op_type", ""))
        target_kind == normalize_type(DictGet(payload, "target_kind", "world"))
        target_id == DictGet(payload, "target_id", None)
        table == IF target_kind = "entity" THEN entities ELSE relations
        valid_target ==
            \/ target_kind = "world"
            \/ /\ Truthy(target_id)
               /\ \E row \in table : row.world_id = world_id /\ row.id = target_id
        indexes == {o.order_index : o \in {x \in operations :
                                              x.world_id = world_id /\ x.marker_id = marker_id}}
        next_index == IF indexes = {} THEN 0
                      ELSE (CHOOSE i \in indexes : \A j \in indexes : j <= i) + 1
    IN  IF \/ marker_id = None
           \/ op_type = ""
           \/ target_kind \notin {"entity", "relation", "world"}
           \/ ~valid_target
        THEN /\ response' = [call |-> "timeline_operation", ok |-> FALSE]
             /\ UNCHANGED <<markers, operations, snapshots, entities, relations, clock>>
        ELSE /\ operations' = operations \cup
                    {[id |-> operation_id,
                      world_id |-> world_id,
                      marker_id |-> marker_id,
                      op_type |-> op_type,
                      target_kind |-> target_kind,
                      target_id |-> target_id,
                      payload |-> DictGet(payload, "payload", <<>>),
                      order_index |-> next_index,
                      created_at |-> _now(clock),
                      updated_at |-> _now(clock)]}
             /\ clock' = clock + 1
             /\ response' = [call |-> "timeline_operation", ok |-> TRUE]
             /\ UNCHANGED <<markers, snapshots, entities, relations>>

EntityUpdates == {[name |-> "Cyra"], [status |-> "retired"], <<>>}

\* the payloads of the mechanic options accepted: a patch of e2 at the last
\* placed marker, the same at m1, and one whose target is not in the store
MechanicPayloads ==
    {[op_type |-> "entity_patch", target_kind |-> "entity", target_id |-> "e2",
      payload |-> [status |-> "exiled"]],
     [marker_id |-> "m1", op_type |-> "entity_patch", target_kind |-> "entity",
      target_id |-> "e2", payload |-> [status |-> "exiled"]],
     [op_type |-> "entity_patch", target_kind |-> "entity", target_id |-> "e3",
      payload |-> [status |-> "exiled"]]}

InitCache ==
    /\ markers = CorruptMarkers
    /\ operations = CorruptOperations
    /\ entities = CanonicalEntities
    /\ relations = {}
    /\ snapshots = RebuildRows(CorruptMarkers, CorruptOperations, <<>>, CanonicalEntities,
                               {}, 2, "w1")
    /\ clock = 3
    /\ response = [call |-> "none", ok |-> TRUE]
    /\ calls = NoCalls

CacheUpdateEntity ==
    \E entity_id \in {"e1", "e3"}, data \in EntityUpdates :
        /\ clock <= MaxCacheClock
        /\ update_entity("w1", entity_id, data)

CacheDeleteEntity ==
    \E entity_id \in {"e1", "e2"} :
        /\ clock <= MaxCacheClock
        /\ delete_entity("w1", entity_id)

CacheApplyTimelineOperation ==
    \E payload \in MechanicPayloads :
        /\ clock <= MaxCacheClock
        /\ Cardinality(operations) < MaxCacheOps
        /\ _apply_timeline_operation("w1", payload, UnusedOpId)

CacheCreateOperation ==
    \E marker_id \in StoredMarkerIds :
        /\ clock <= MaxCacheClock
        /\ Cardinality(operations) < MaxCacheOps
        /\ create_operation("w1", marker_id, RenameAldric, TRUE, UnusedOpId)

CacheGetWorldState ==
    \E marker_id \in StoredMarkerIds, use_snapshot \in BOOLEAN :
        read_world_state("w1", marker_id, use_snapshot)

NextCache ==
    \/ CacheUpdateEntity /\ Sequential
    \/ CacheDeleteEntity /\ Sequential
    \/ CacheApplyTimelineOperation /\ Sequential
    \/ CacheCreateOperation /\ Sequential
    \/ CacheGetWorldState /\ Sequential

SpecCache == InitCache /\ [][NextCache]_vars

\* rows with created_at and updated_at left out
Untimed(rows) ==
    [i \in 1..Len(rows) |->
        [f \in DOMAIN rows[i] \ {"created_at", "updated_at"} |-> rows[i][f]]]

\* C18: in every state between calls, for every marker M that has a stored
\* snapshot, get_world_state(world, M) with snapshots enabled returns the same
\* entities and relations (timestamps aside) as with use_snapshot=False.
C18_SnapshotEqualsReplayAtRest ==
    \A m \in markers :
        get_snapshot(snapshots, "w1", m.id) # <<>> =>
            \A cached \in WorldStates(m.id, TRUE), replayed \in WorldStates(m.id, FALSE) :
                /\ Untimed(cached.entities) = Untimed(replayed.entities)
                /\ Untimed(cached.relations) = Untimed(replayed.relations)

\* --------------------------------- writer calls step by step, and crashes
\* Each writer makes one mutating call with rebuild_snapshots=True. The call is
\* the committed write, then rebuild_snapshots statement by statement:
\* list_markers, the DELETE of the world's snapshots, and for each listed marker
\* generate_snapshot's get_world_state(use_snapshot=False) followed by its
\* upsert_snapshot. Every statement opens its own connection and commits, so
\* the statements of two calls interleave freely and a call can stop after any
\* of them.
Writers == {"A", "B"}

ExileBrina ==
    [op_type |-> "entity_patch", target_kind |-> "entity", target_id |-> "e2",
     payload |-> [status |-> "exiled"]]
RetireAldric ==
    [op_type |-> "entity_patch", target_kind |-> "entity", target_id |-> "e1",
     payload |-> [status |-> "retired"]]

StepsOperationBodies == {ExileBrina, RetireAldric}
StepsMarkerBodies ==
    {[marker_kind |-> "explicit", date_sort_value |-> Float(200),
      operations |-> <<RetireAldric>>]}

StepsMarkers == {ReplayMarker("m1", 100, 1)}

\* a call's position (pc), the markers its rebuild has still to snapshot (todo)
\* and the world state generate_snapshot holds between its read and its upsert
Call(pc, todo, state) == [pc |-> pc, todo |-> todo, state |-> state]

InitSteps ==
    /\ markers = StepsMarkers
    /\ operations = CorruptOperations
    /\ entities = CanonicalEntities
    /\ relations = {}
    /\ snapshots = RebuildRows(StepsMarkers, CorruptOperations, <<>>, CanonicalEntities,
                               {}, 2, "w1")
    /\ clock = 3
    /\ response = [call |-> "none", ok |-> TRUE]
    /\ calls = [w \in Writers |-> Call("start", <<>>, NoRow)]

\* the write of create_operation, committed; `if operation and rebuild_snapshots`
StepCreateOperation(w) ==
    \E marker_id \in StoredMarkerIds, body \in StepsOperationBodies :
        /\ calls[w].pc = "start"
        /\ create_operation("w1", marker_id, body, FALSE, UnusedOpId)
        /\ calls' = [calls EXCEPT ![w].pc = "rebuild"]

\* the write of create_marker with its embedded operations, committed
StepCreateMarker(w) ==
    \E body \in StepsMarkerBodies :
        /\ calls[w].pc = "start"
        /\ create_marker("w1", body, FALSE, UnusedMarkerId,
                         [i \in 1..Len(DictGet(body, "operations", <<>>)) |-> UnusedOpId])
        /\ calls' = [calls EXCEPT ![w].pc = "rebuild"]

\* rebuild_snapshots: markers = await self.list_markers(world_id)
StepListMarkers(w) ==
    /\ calls[w].pc = "rebuild"
    /\ calls' = [calls EXCEPT ![w] = Call("delete", list_markers(markers, "w1"), NoRow)]
    /\ UNCHANGED <<markers, operations, snapshots, entities, relations, clock, response>>

\* rebuild_snapshots: DELETE FROM timeline_snapshots WHERE world_id = ?; commit
StepDeleteSnapshots(w) ==
    /\ calls[w].pc = "delete"
    /\ snapshots' = DeleteWorldSnapshots(snapshots, "w1")
    /\ calls' = [calls EXCEPT ![w].pc = IF calls[w].todo = <<>> THEN "returned" ELSE "read"]
    /\ UNCHANGED <<markers, operations, entities, relations, clock, response>>

\* generate_snapshot: state = await self.get_world_state(world_id, marker_id, False)
StepReadState(w) ==
    /\ calls[w].pc = "read"
    /\ \E ws \in get_world_state(markers, operations, snapshots, entities, relations, clock,
                                 "w1", Head(calls[w].todo).id, FALSE) :
          calls' = [calls EXCEPT ![w].pc = IF ws.ok THEN "upsert" ELSE "raised",
                                 ![w].state = ws]
    /\ UNCHANGED <<markers, operations, snapshots, entities, relations, clock, response>>

\* generate_snapshot: upsert_snapshot of the state read; the loop moves on
StepUpsertSnapshot(w) ==
    /\ calls[w].pc = "upsert"
    /\ snapshots' = UpsertRow(snapshots, "w1", Head(calls[w].todo).id,
                              SnapshotOfState(calls[w].state), clock)
    /\ calls' = [calls EXCEPT ![w] =
                    Call(IF Tail(calls[w].todo) = <<>> THEN "returned" ELSE "read",
                         Tail(calls[w].todo), NoRow)]
    /\ UNCHANGED <<markers, operations, entities, relations, clock, response>>

\* the call is interrupted inside rebuild_snapshots: the process dies or the
\* request is cancelled, after its write has been committed
Crash(w) ==
    /\ calls[w].pc \in {"rebuild", "delete", "read", "upsert"}
    /\ calls' = [calls EXCEPT ![w] = Call("crashed", <<>>, NoRow)]
    /\ UNCHANGED <<markers, operations, snapshots, entities, relations, clock, response>>

NextSteps ==
    \E w \in Writers :
        \/ StepCreateOperation(w)
        \/ StepCreateMarker(w)
        \/ StepListMarkers(w)
        \/ StepDeleteSnapshots(w)
        \/ StepReadState(w)
        \/ StepUpsertSnapshot(w)
        \/ Crash(w)

SpecSteps == InitSteps /\ [][NextSteps]_vars

\* the full replay at marker_id over the present log, as generate_snapshot
\* would store it
ReplayedJson(marker_id) ==
    _state_json_from_world_state(CHOOSE ws \in WorldStates(marker_id, FALSE) : TRUE)

\* the snapshot rows stored for marker_id
SnapshotRows(marker_id) ==
    {i \in 1..Len(snapshots) :
        snapshots[i].world_id = "w1" /\ snapshots[i].marker_id = marker_id}

\* C16: once both concurrent writer calls have returned, every marker has
\* exactly one snapshot, and the snapshot stored holds the entities, relations
\* (timestamps aside) and applied_marker_count of the full replay at its marker
\* over the final log.
C16_ConcurrentWritersConverge ==
    (\A w \in Writers : calls[w].pc = "returned") =>
        \A m \in markers :
            /\ Cardinality(SnapshotRows(m.id)) = 1
            /\ \A i \in SnapshotRows(m.id) :
                  LET stored == _load_json(snapshots[i].state_json, <<>>)
                  IN  /\ Untimed(stored.entities) = Untimed(ReplayedJson(m.id).entities)
                      /\ Untimed(stored.relations) = Untimed(ReplayedJson(m.id).relations)
                      /\ stored.applied_marker_count = ReplayedJson(m.id).applied_marker_count

\* C17: when the only call made was interrupted inside its rebuild_snapshots,
\* for every marker get_world_state with snapshots enabled returns the same
\* entities and relations (timestamps aside) as the full replay over the
\* committed log.
C17_CrashLeavesReadsCorrect ==
    (\E w \in Writers : /\ calls[w].pc = "crashed"
                        /\ \A other \in Writers \ {w} : calls[other].pc = "start") =>
        \A m \in markers :
            \A cached \in WorldStates(m.id, TRUE), replayed \in WorldStates(m.id, FALSE) :
                /\ Untimed(cached.entities) = Untimed(replayed.entities)
                /\ Untimed(cached.relations) = Untimed(replayed.relations)

\* ------------------------------------------------ claims on stored snapshots
\* the entities / relations list of a decoded state_json (empty when the key is
\* absent)
StoredList(state_json, key) == IF key \in DOMAIN state_json THEN state_json[key] ELSE <<>>

\* C21: every stored snapshot's state_hash is the SHA-256 digest of the
\* canonical JSON encoding of its stored state_json, and its entity_count and
\* relation_count are the lengths of its entities and relations lists, after
\* any sequence of calls (upsert_snapshot with a caller's body included).
C21_StoredHashAndCounts ==
    \A i \in 1..Len(snapshots) :
        LET stored == _load_json(snapshots[i].state_json, <<>>)
        IN  /\ snapshots[i].state_hash # None
            /\ snapshots[i].state_hash = _state_hash(stored)
            /\ snapshots[i].entity_count = Len(StoredList(stored, "entities"))
            /\ snapshots[i].relation_count = Len(StoredList(stored, "relations"))

\* ------------------------------------------------------- claims on replay
\* the maps replay ends with for the target of the last read
MapsAtTarget ==
    _apply_operations("w1",
        InitialMaps(_list_base_entities(entities, "w1"),
                    _list_base_relations(relations, "w1"),
                    _creation_sort_keys(markers, operations, "w1"),
                    TargetKey),
        _list_operations_up_to(markers, operations, "w1", TargetKey), clock)

\* the exists_at_marker a read reports for the entity id (false when the
\* entity is not listed)
ReportedExisting(id) ==
    \E e \in Range(response.state.entities) : e.id = id /\ e.exists_at_marker

\* C22: in every world state a read returns, each relation listed reports
\* exists_at_marker, and reports it true exactly when the relation's own
\* existence flag is true and both its source and its target entity are
\* reported with exists_at_marker = true.
C22_RelationExistenceDerived ==
    Returned =>
        \A r \in Range(response.state.relations) :
            /\ "exists_at_marker" \in DOMAIN r
            /\ r["exists_at_marker"] =
                  ( /\ DictGet(MapsAtTarget.relation_exists_map, r.id, TRUE)
                    /\ ReportedExisting(r.source_entity_id)
                    /\ ReportedExisting(r.target_entity_id) )

\* ------------------------------------- specification of the order of replay
\* Three markers stand, m1 (sort_key 100) and m2, m3 (both sort_key 200, m3
\* created after m2); operations setting the status of e1 are attached to them
\* one call at a time, with and without an explicit order_index, and the world
\* state is read at each marker and at the present.
MaxApplyOps == 2    \* operations stored at once in this specification

\* order_index is declared with ge=0 and defaults to 0
KnightAldricLater ==
    [op_type |-> "entity_patch", target_kind |-> "entity", target_id |-> "e1",
     payload |-> [status |-> "knighted"], order_index |-> 1]

ApplyBodies == {PatchKnighted, RetireAldric, KnightAldricLater}
ApplyTargets == {"m1", "m2", "m3", None}

InitApply ==
    /\ markers = {ReplayMarker("m1", 100, 1), ReplayMarker("m2", 200, 2),
                  ReplayMarker("m3", 200, 3)}
    /\ operations = {}
    /\ snapshots = <<>>
    /\ entities = CanonicalEntities
    /\ relations = CanonicalRelations
    /\ clock = 4
    /\ response = [call |-> "none", ok |-> TRUE]
    /\ calls = NoCalls

ApplyCreateOperation ==
    \E marker_id \in StoredMarkerIds, body \in ApplyBodies :
        /\ Cardinality(operations) < MaxApplyOps
        /\ create_operation("w1", marker_id, body, FALSE, UnusedOpId)

ApplyGetWorldState ==
    \E marker_id \in ApplyTargets :
        read_world_state("w1", marker_id, FALSE)

NextApply ==
    \/ ApplyCreateOperation /\ Sequential
    \/ ApplyGetWorldState /\ Sequential

SpecApply == InitApply /\ [][NextApply]_vars

\* the six sort columns of an operation row joined to its marker, and the
\* lexicographic order on them
SortColumns(o) ==
    <<MarkerOf(markers, o).sort_key, MarkerOf(markers, o).created_at[2],
      TextRank(MarkerOf(markers, o).id), o.order_index, o.created_at[2], TextRank(o.id)>>
ColumnsLess(s, t) ==
    \E i \in 1..Len(s) : s[i] < t[i] /\ \A j \in 1..(i - 1) : s[j] = t[j]

\* the operations replay applies for the target of the last read, in order
Applied == _list_operations_up_to(markers, operations, "w1", TargetKey)

\* the operations at or before the target that set the status of entity id
StatusSetters(id) ==
    {o \in operations :
        /\ AtOrBeforeTarget(o)
        /\ IsEntityOp(o, entity_create_ops \cup entity_update_ops \cup entity_delete_ops)
        /\ EntityOf(o) = id
        /\ PayloadGet(o.payload, "status") # None}

\* C23: at a read, replay applies exactly the operations whose marker has
\* sort_key <= the target's (all of them for the present), each once, in
\* ascending (marker.sort_key, marker.created_at, marker.id,
\* operation.order_index, operation.created_at, operation.id) order; and the
\* status the read reports for an entity is the one set by the last, in that
\* order, of the operations that set it.
C23_ReplayOrder ==
    Returned =>
        LET applied == Applied
            due == {o \in operations : AtOrBeforeTarget(o)}
        IN  /\ Range(applied) = due
            /\ Len(applied) = Cardinality(due)
            /\ \A i, j \in 1..Len(applied) :
                  i < j => ColumnsLess(SortColumns(applied[i]), SortColumns(applied[j]))
            /\ \A e \in Range(response.state.entities) :
                  LET setters == StatusSetters(e.id)
                  IN  \A last \in setters :
                          (\A o \in setters \ {last} :
                                ColumnsLess(SortColumns(o), SortColumns(last)))
                          => e.status = last.payload["status"]

\* a read at m2 after two operations set the status of e1 to different values,
\* the one that comes last in replay order having been written first
C23_Witness ==
    /\ Returned
    /\ response.marker_id = "m2"
    /\ \E first, last \in StatusSetters("e1") :
          /\ ColumnsLess(SortColumns(first), SortColumns(last))
          /\ last.created_at[2] < first.created_at[2]
          /\ last.payload["status"] # first.payload["status"]
          /\ \A o \in StatusSetters("e1") \ {last} :
                ColumnsLess(SortColumns(o), SortColumns(last))
          /\ \E e \in Range(response.state.entities) :
                e.id = "e1" /\ e.status = last.payload["status"]

\* ------------------------------- specification of the effect of operations
\* Markers m1 (sort_key 100) and m2 (sort_key 200) stand over the canonical
\* entities e1, e2 and relation r1; operations of every supported type, on
\* known ids and on the unknown ids e3 and r2, are attached to them one call at
\* a time and the world state is read at each marker and at the present.
MaxEffectOps == 2    \* operations stored at once in this specification

PatchCyra ==
    [op_type |-> "entity_patch", target_kind |-> "entity", target_id |-> "e3",
     payload |-> [name |-> "Cyra", type |-> "character"]]
DeleteBond ==
    [op_type |-> "relation_delete", target_kind |-> "relation", target_id |-> "r2"]
PatchBond ==
    [op_type |-> "relation_patch", target_kind |-> "relation", target_id |-> "r2",
     payload |-> [source_entity_id |-> "e2", target_entity_id |-> "e1", type |-> "rival_of"]]
CreateBond ==
    [op_type |-> "relation_create", target_kind |-> "relation", target_id |-> "r2",
     payload |-> [source_entity_id |-> "e2", target_entity_id |-> "e1", type |-> "rival_of"]]
PatchAlliance ==
    [op_type |-> "relation_patch", target_kind |-> "relation", target_id |-> "r1",
     payload |-> [type |-> "rival_of"]]

CreateUnnamed ==
    [op_type |-> "entity_create", target_kind |-> "entity", target_id |-> "e3",
     payload |-> [status |-> "exiled"]]

EffectBodies ==
    {PatchKnighted, DeleteDeceased, CreateAldric, DeleteCyra, PatchCyra, CreateCyra,
     CreateUnnamed, DeleteBond, PatchBond, CreateBond, PatchAlliance}

InitEffect ==
    /\ markers = {ReplayMarker("m1", 100, 1), ReplayMarker("m2", 200, 2)}
    /\ operations = {}
    /\ snapshots = <<>>
    /\ entities = CanonicalEntities
    /\ relations = CanonicalRelations
    /\ clock = 3
    /\ response = [call |-> "none", ok |-> TRUE]
    /\ calls = NoCalls

EffectCreateOperation ==
    \E marker_id \in StoredMarkerIds, body \in EffectBodies :
        /\ Cardinality(operations) < MaxEffectOps
        /\ create_operation("w1", marker_id, body, FALSE, UnusedOpId)

EffectGetWorldState ==
    \E marker_id \in ReplayTargets :
        read_world_state("w1", marker_id, FALSE)

NextEffect ==
    \/ EffectCreateOperation /\ Sequential
    \/ EffectGetWorldState /\ Sequential

SpecEffect == InitEffect /\ [][NextEffect]_vars

\* the relations get_world_state lists for the target of the last read over the
\* operations ops
RelationsOver(ops) ==
    Replay(markers, ops, entities, relations, clock, "w1", TargetKey).relations

\* the projection the last read returned is the one of the log ops
ProjectionIs(ops) ==
    /\ response.state.entities = EntitiesOver(ops)
    /\ response.state.relations = RelationsOver(ops)

\* the id an operation is applied to, and its kind and type
TargetOf(o) == IF Truthy(o.target_id) THEN o.target_id ELSE PayloadGet(o.payload, "id")
IsOp(o, kind, op_types) ==
    normalize_type(o.target_kind) = kind /\ normalize_type(o.op_type) \in op_types

\* the maps of the replay for the target of the last read just before it
\* applies operation o
MapsBefore(o) ==
    LET applied == Applied
        n == CHOOSE i \in 1..Len(applied) : applied[i] = o
    IN  _apply_operations("w1",
            InitialMaps(_list_base_entities(entities, "w1"),
                        _list_base_relations(relations, "w1"),
                        _creation_sort_keys(markers, operations, "w1"),
                        TargetKey),
            SubSeq(applied, 1, n - 1), clock)

\* the target id of o is known when replay comes to apply o
KnownAt(o) ==
    IF normalize_type(o.target_kind) = "relation"
    THEN InMap(MapsBefore(o).relation_map, TargetOf(o))
    ELSE InMap(MapsBefore(o).entity_map, TargetOf(o))

\* C24: an entity_delete or relation_delete applied to an id that is unknown
\* when replay reaches it is a no-op: the projection the read returns is the
\* projection of the log without that operation, whatever later operations do
\* with the same id.
C24_DeleteUnknownIsNoOp ==
    Returned =>
        \A d \in operations :
            ( /\ AtOrBeforeTarget(d)
              /\ \/ IsOp(d, "entity", entity_delete_ops)
                 \/ IsOp(d, "relation", relation_delete_ops)
              /\ ~KnownAt(d) )
            => ProjectionIs(operations \ {d})

\* the record with this id in a list of the projection, as a set (empty when
\* the id is not listed), and the records with another id
Listed(rows, id) == {x \in Range(rows) : x.id = id}
Others(rows, id) == {x \in Range(rows) : x.id # id}

\* rows and without, the projections with and without patch p, differ at most
\* in the fields of p's target that p's payload names
OnlyPayloadFields(p, rows, without) ==
    /\ Others(rows, TargetOf(p)) = Others(without, TargetOf(p))
    /\ \A x \in Listed(rows, TargetOf(p)), y \in Listed(without, TargetOf(p)) :
          \A f \in (DOMAIN x \cap DOMAIN y) \ DOMAIN p.payload : x[f] = y[f]

\* C25: an entity_patch or relation_patch changes only the fields of its target
\* that its payload names: every other field of the target, and every other
\* entity and relation, is projected as it is from the log without the patch.
C25_PatchFrame ==
    Returned =>
        \A p \in operations :
            ( /\ AtOrBeforeTarget(p)
              /\ \/ IsOp(p, "entity", entity_update_ops)
                 \/ IsOp(p, "relation", relation_update_ops) )
            => /\ OnlyPayloadFields(p, response.state.entities,
                                    EntitiesOver(operations \ {p}))
               /\ OnlyPayloadFields(p, response.state.relations,
                                    RelationsOver(operations \ {p}))

\* C26: an entity_patch or relation_patch applied to an id that is unknown when
\* replay reaches it materializes the record from its payload: the read lists a
\* record with that id, of the patch's kind, whose fields named in the payload
\* have the payload's values.
C26_PatchAutoVivifies ==
    Returned =>
        \A p \in operations :
            ( /\ AtOrBeforeTarget(p)
              /\ \/ IsOp(p, "entity", entity_update_ops)
                 \/ IsOp(p, "relation", relation_update_ops)
              /\ ~KnownAt(p) )
            => LET rows == IF normalize_type(p.target_kind) = "relation"
                           THEN response.state.relations ELSE response.state.entities
               IN  /\ Listed(rows, TargetOf(p)) # {}
                   /\ (\A other \in operations \ {p} : TargetOf(other) # TargetOf(p))
                      => \A x \in Listed(rows, TargetOf(p)) :
                            \A f \in DOMAIN p.payload \cap DOMAIN x : x[f] = p.payload[f]

\* the operations at or before the target applied to the same id as o, after o
LaterOnSameId(o) ==
    {x \in operations \ {o} :
        /\ AtOrBeforeTarget(x)
        /\ normalize_type(x.target_kind) = normalize_type(o.target_kind)
        /\ TargetOf(x) = TargetOf(o)
        /\ ColumnsLess(SortColumns(o), SortColumns(x))}

\* C27: an entity_create or relation_create at or before the target of a read
\* leaves a record with its id in the projection, whether the id was known or
\* not, and when no later operation is applied to that id the record reports
\* exists_at_marker = true (also after an earlier delete of the id) and the
\* payload's values in the fields the payload names.
C27_CreateMaterializes ==
    Returned =>
        \A c \in operations :
            ( /\ AtOrBeforeTarget(c)
              /\ \/ IsOp(c, "entity", entity_create_ops)
                 \/ IsOp(c, "relation", relation_create_ops) )
            => LET rows == IF normalize_type(c.target_kind) = "relation"
                           THEN response.state.relations ELSE response.state.entities
               IN  /\ Listed(rows, TargetOf(c)) # {}
                   /\ LaterOnSameId(c) = {}
                      => \A x \in Listed(rows, TargetOf(c)) :
                            /\ "exists_at_marker" \in DOMAIN x
                            /\ x["exists_at_marker"] = TRUE
                            /\ \A f \in DOMAIN c.payload \cap DOMAIN x : x[f] = c.payload[f]

\* --------------------------------------- specification of world operations
\* Markers m1 (sort_key 100) and m2 (sort_key 200) stand; world_patch
\* operations and entity operations are attached to them one call at a time
\* and the world state is read at each marker and at the present.
MaxWorldPatchOps == 2    \* operations stored at once in this specification

WorldPatch ==
    [op_type |-> "world_patch", target_kind |-> "world",
     payload |-> [status |-> "sundered"]]

WorldPatchBodies == {WorldPatch, PatchKnighted, DeleteDeceased, CreateCyra}

WorldPatchCreateOperation ==
    \E marker_id \in StoredMarkerIds, body \in WorldPatchBodies :
        /\ Cardinality(operations) < MaxWorldPatchOps
        /\ create_operation("w1", marker_id, body, FALSE, UnusedOpId)

WorldPatchGetWorldState ==
    \E marker_id \in ReplayTargets :
        read_world_state("w1", marker_id, FALSE)

NextWorldPatch ==
    \/ WorldPatchCreateOperation /\ Sequential
    \/ WorldPatchGetWorldState /\ Sequential

SpecWorldPatch == InitEffect /\ [][NextWorldPatch]_vars

IsWorldPatch(o) == normalize_type(o.op_type) = "world_patch"

\* C28: a create_operation call with a world_patch body succeeds and stores the
\* operation, and the entities and relations a read returns, their
\* exists_at_marker included, are those of the log without the world_patch
\* operations.
C28_WorldPatchHasNoEffect ==
    /\ (response.call = "create_operation" /\ response.ok /\ response.operation # NoRow)
        => response.operation \in operations
    /\ response.call = "create_operation" => response.ok
    /\ Returned =>
          /\ ProjectionIs({o \in operations : ~IsWorldPatch(o)})
          /\ \A wp \in operations : IsWorldPatch(wp) => ProjectionIs(operations \ {wp})

\* a read at a target that a stored world_patch operation and an entity_patch
\* both precede, the patch showing in the projection
C28_Witness ==
    /\ Returned
    /\ \E wp, p \in operations :
          /\ IsWorldPatch(wp) /\ AtOrBeforeTarget(wp)
          /\ wp.target_kind = "world"
          /\ IsOp(p, "entity", entity_update_ops) /\ AtOrBeforeTarget(p)
          /\ \E e \in Range(response.state.entities) :
                e.id = TargetOf(p) /\ e.status = p.payload["status"]

\* ------------------------------------ specification of the snapshot fast path
\* Markers m1 (sort_key 100) and m2, m3 (both sort_key 200) stand over the
\* canonical entities (no canonical relation), made with
\* rebuild_snapshots=False, so that no snapshot is stored at first; snapshots
\* are then generated marker by marker, operations are attached, and the world
\* state is read, with and without snapshot usage, at each marker and at the
\* present.
MaxFastPathClock == 5    \* the clock of the last write of this specification

FastPathBodies == {PatchKnighted}

InitFastPath ==
    /\ markers = {ReplayMarker("m1", 100, 1), ReplayMarker("m2", 200, 2),
                  ReplayMarker("m3", 200, 3)}
    /\ operations = {}
    /\ snapshots = <<>>
    /\ entities = CanonicalEntities
    /\ relations = {}
    /\ clock = 4
    /\ response = [call |-> "none", ok |-> TRUE]
    /\ calls = NoCalls

FastPathGenerateSnapshot ==
    \E marker_id \in StoredMarkerIds :
        /\ clock <= MaxFastPathClock
        /\ generate_snapshot("w1", marker_id)

FastPathCreateOperation ==
    \E marker_id \in StoredMarkerIds, body \in FastPathBodies :
        /\ clock <= MaxFastPathClock
        /\ create_operation("w1", marker_id, body, FALSE, UnusedOpId)

FastPathGetWorldState ==
    \E marker_id \in ApplyTargets, use_snapshot \in BOOLEAN :
        read_world_state("w1", marker_id, use_snapshot)

NextFastPath ==
    \/ FastPathGenerateSnapshot /\ Sequential
    \/ FastPathCreateOperation /\ Sequential
    \/ FastPathGetWorldState /\ Sequential

SpecFastPath == InitFastPath /\ [][NextFastPath]_vars

\* the world's markers that have a stored snapshot and lie at or below the
\* target of the last read
SnapshotMarkersUpToTarget ==
    {m \in markers :
        /\ m.world_id = "w1"
        /\ \E i \in 1..Len(snapshots) :
              snapshots[i].world_id = "w1" /\ snapshots[i].marker_id = m.id
        /\ TargetKey = NoFloat \/ m.sort_key <= TargetKey[1]}

\* the last read was answered from a cached snapshot
FromCache == response.state.note = "Loaded from cached timeline snapshot."

\* C29: a read with snapshot usage enabled is answered from a cached snapshot
\* whenever some marker at or below the target's sort_key has a stored
\* snapshot, the target being a marker (with or without a snapshot of its own)
\* or the present.
C29_FastPathAtOrBelow ==
    (Returned /\ response.use_snapshot /\ SnapshotMarkersUpToTarget # {}) => FromCache

\* the world's markers at or below the target of the last read
MarkersUpToTarget ==
    {m \in markers : /\ m.world_id = "w1"
                     /\ TargetKey = NoFloat \/ m.sort_key <= TargetKey[1]}

OtherSnapshotRows(snaps, marker_id) ==
    {snaps[i] : i \in {j \in 1..Len(snaps) : snaps[j].marker_id # marker_id}}

\* a step of writer w inside generate_snapshot that comes before its upsert:
\* the read of the world state, or the call stopping before or after the read
BeforeUpsert(w) ==
    /\ calls[w].pc \in {"read", "upsert"}
    /\ calls'[w].pc \in {"upsert", "raised", "crashed"}
    /\ calls'[w] # calls[w]

\* the step of writer w that is generate_snapshot's upsert
TheUpsert(w) ==
    /\ calls[w].pc = "upsert"
    /\ calls'[w].pc \in {"read", "returned"}

\* C31: a generate_snapshot that stops before its upsert leaves the snapshot
\* table as it was, its upsert writes the row of its marker and no other, and
\* every stored row has the state_hash of its state_json and the lengths of its
\* entities and relations lists as counts.
C31_GenerateSnapshotOneWrite ==
    /\ [][\A w \in Writers :
            /\ BeforeUpsert(w) => snapshots' = snapshots
            /\ TheUpsert(w) =>
                  /\ OtherSnapshotRows(snapshots', Head(calls[w].todo).id)
                        = OtherSnapshotRows(snapshots, Head(calls[w].todo).id)
                  /\ Len(snapshots') \in {Len(snapshots), Len(snapshots) + 1}]_vars
    /\ [](\A i \in 1..Len(snapshots) :
            LET stored == _load_json(snapshots[i].state_json, <<>>)
            IN  /\ snapshots[i].state_hash = _state_hash(stored)
                /\ snapshots[i].entity_count = Len(stored.entities)
                /\ snapshots[i].relation_count = Len(stored.relations))

\* one writer was stopped and the other holds the state it has read for a
\* marker whose snapshot row a rebuild has deleted
C31_Witness ==
    \E w, v \in Writers :
        /\ calls[w].pc = "crashed"
        /\ calls[v].pc = "upsert"
        /\ calls[v].state.ok
        /\ SnapshotRows(Head(calls[v].todo).id) = {}

\* ------------------------------------- specification of a repairing rebuild
\* Markers m1 (sort_key 100) and m2 (sort_key 200) stand with no snapshot, as
\* an interrupted rebuild leaves them after its DELETE. Snapshots then go
\* missing, stale or extra: operations are written without a rebuild,
\* snapshots are generated marker by marker or upserted by a client (also for
\* the id of no marker), and rebuild_snapshots runs from start to end.
MaxRepairClock == 5    \* the clock of the last write of this specification

RepairMarkerIds == {"m1", "m2", "m3"}

InitRepair ==
    /\ markers = {ReplayMarker("m1", 100, 1), ReplayMarker("m2", 200, 2)}
    /\ operations = {}
    /\ snapshots = <<>>
    /\ entities = CanonicalEntities
    /\ relations = CanonicalRelations
    /\ clock = 3
    /\ response = [call |-> "none", ok |-> TRUE]
    /\ calls = NoCalls

RepairCreateOperation ==
    \E marker_id \in StoredMarkerIds :
        /\ clock <= MaxRepairClock
        /\ create_operation("w1", marker_id, PatchKnighted, FALSE, UnusedOpId)

RepairGenerateSnapshot ==
    \E marker_id \in StoredMarkerIds :
        /\ clock <= MaxRepairClock
        /\ generate_snapshot("w1", marker_id)

RepairUpsertSnapshot ==
    \E marker_id \in RepairMarkerIds, data \in SnapshotUpserts :
        /\ clock <= MaxRepairClock
        /\ upsert_snapshot("w1", marker_id, data)

RepairRebuildSnapshots ==
    /\ clock <= MaxRepairClock
    /\ rebuild_snapshots("w1")

NextRepair ==
    \/ RepairCreateOperation /\ Sequential
    \/ RepairGenerateSnapshot /\ Sequential
    \/ RepairUpsertSnapshot /\ Sequential
    \/ RepairRebuildSnapshots /\ Sequential

SpecRepair == InitRepair /\ [][NextRepair]_vars

\* C32: in the state a completed rebuild_snapshots leaves, every marker of the
\* world has exactly one snapshot, no snapshot of the world is stored for
\* anything else, and each snapshot holds the full-replay projection at its
\* marker.
C32_RebuildRepairs ==
    response.call = "rebuild_snapshots" =>
        /\ \A i \in 1..Len(snapshots) :
              snapshots[i].world_id = "w1" => snapshots[i].marker_id \in StoredMarkerIds
        /\ \A m \in markers :
              /\ Cardinality(SnapshotRows(m.id)) = 1
              /\ \A i \in SnapshotRows(m.id) :
                    _load_json(snapshots[i].state_json, <<>>) = ReplayedJson(m.id)

\* ------------------------------ specification of embedded operations
\* Markers are created with two embedded operations that give no order_index;
\* the operation ids are the uuid4 values the call draws, any two distinct
\* ids in any order; the world state is read at the present.
MaxEmbeddedMarkers == 2    \* markers stored at once in this specification
MaxEmbeddedOpIds == 4      \* ids an operation of this specification can draw

EmbeddedBodies ==
    {[marker_kind |-> "explicit", date_sort_value |-> Float(100),
      operations |-> <<PatchKnighted, RetireAldric>>],
     [marker_kind |-> "explicit", date_sort_value |-> Float(200),
      operations |-> <<RetireAldric, ExileBrina>>]}

\* the pairs of distinct ids no stored operation has
EmbeddedOpIdSeqs ==
    LET unused == {OpIdPool[i] : i \in 1..MaxEmbeddedOpIds} \ {o.id : o \in operations}
    IN  {ids \in unused \X unused : ids[1] # ids[2]}

InitEmbedded ==
    /\ markers = {}
    /\ operations = {}
    /\ snapshots = <<>>
    /\ entities = CanonicalEntities
    /\ relations = CanonicalRelations
    /\ clock = 1
    /\ response = [call |-> "none", ok |-> TRUE]
    /\ calls = NoCalls

EmbeddedCreateMarker ==
    \E body \in EmbeddedBodies, operation_ids \in EmbeddedOpIdSeqs :
        /\ Cardinality(markers) < MaxEmbeddedMarkers
        /\ create_marker("w1", body, FALSE, UnusedMarkerId, operation_ids)

EmbeddedGetWorldState ==
    read_world_state("w1", None, FALSE)

NextEmbedded ==
    \/ EmbeddedCreateMarker /\ Sequential
    \/ EmbeddedGetWorldState /\ Sequential

SpecEmbedded == InitEmbedded /\ [][NextEmbedded]_vars

\* the operations of marker_id as replay at the present applies them
ReplayedOf(marker_id) ==
    LET OfMarker(o) == o.marker_id = marker_id
    IN  SelectSeq(_list_operations_up_to(markers, operations, "w1", NoFloat), OfMarker)

\* C33: the marker a create_marker call returns lists its embedded operations
\* in the order of the request list, each with its position in that list as
\* order_index, and replay applies them in the same order.
C33_EmbeddedOperationsKeepOrder ==
    (response.call = "create_marker" /\ response.ok) =>
        LET requested == TimelineMarkerCreate(response.body).operations
            listed == response.marker.operations
        IN  /\ Len(listed) = Len(requested)
            /\ \A i \in 1..Len(listed) :
                  /\ listed[i].op_type = normalize_type(requested[i].op_type)
                  /\ listed[i].target_id = requested[i].target_id
                  /\ listed[i].payload = requested[i].payload
                  /\ listed[i].order_index = i - 1
            /\ ReplayedOf(response.marker.id) = listed

\* ----------------------------- specification of the existence flags in replay
\* Markers m1 (sort_key 100) and m2 (sort_key 200) stand over the canonical
\* entities e1, e2 and relation r1; creates, patches and deletes of the known
\* records e1 and r1 are attached to them one call at a time and the world
\* state is read at each marker and at the present.
MaxFlagOps == 2    \* operations stored at once in this specification

DeleteAlliance ==
    [op_type |-> "relation_delete", target_kind |-> "relation", target_id |-> "r1"]
CreateAlliance ==
    [op_type |-> "relation_create", target_kind |-> "relation", target_id |-> "r1"]

FlagBodies ==
    {PatchKnighted, DeleteDeceased, CreateAldric, PatchAlliance, DeleteAlliance, CreateAlliance}

FlagCreateOperation ==
    \E marker_id \in StoredMarkerIds, body \in FlagBodies :
        /\ Cardinality(operations) < MaxFlagOps
        /\ create_operation("w1", marker_id, body, FALSE, UnusedOpId)

FlagGetWorldState ==
    \E marker_id \in ReplayTargets :
        read_world_state("w1", marker_id, FALSE)

NextFlag ==
    \/ FlagCreateOperation /\ Sequential
    \/ FlagGetWorldState /\ Sequential

SpecFlag == InitEffect /\ [][NextFlag]_vars

\* the maps of the replay for the target of the last read after it has applied
\* the first n operations
MapsAfter(n) ==
    _apply_operations("w1",
        InitialMaps(_list_base_entities(entities, "w1"),
                    _list_base_relations(relations, "w1"),
                    _creation_sort_keys(markers, operations, "w1"),
                    TargetKey),
        SubSeq(Applied, 1, n), clock)

\* one step of the replay keeps the flags of the known records, a create of the
\* record and a delete of the record apart
FlagsKept(map_before, exists_before, exists_after, o, kind, create_ops, delete_ops) ==
    \A i \in 1..Len(map_before) :
        LET id == map_before[i].id
            was == DictGet(exists_before, id, TRUE)
            is == DictGet(exists_after, id, TRUE)
        IN  /\ (~was /\ is) => (IsOp(o, kind, create_ops) /\ TargetOf(o) = id)
            /\ (was /\ ~is) => (IsOp(o, kind, delete_ops) /\ TargetOf(o) = id)

\* a patch of a record whose flag is false writes the payload's fields into the
\* record and leaves the record flagged false
PatchedWhileDeleted(map_before, map_after, exists_before, exists_after, o) ==
    LET id == TargetOf(o)
        k == IndexOf(map_before, id)
    IN  (k # 0 /\ ~DictGet(exists_before, id, TRUE)) =>
            /\ ~DictGet(exists_after, id, TRUE)
            /\ ~map_after[k].exists_at_marker
            /\ \A f \in DOMAIN o.payload \cap {"status", "type"} :
                  map_after[k][f] = IF f = "type" THEN normalize_type(o.payload[f])
                                    ELSE o.payload[f]

\* C34: at every step of the replay behind a read, the existence flag of a
\* record known before the step turns true only when the step is a create of
\* that record and false only when it is a delete of that record; a patch of a
\* record flagged false (deleted earlier, or created later than the target)
\* writes its fields and leaves exists_at_marker false, and the entity is
\* listed with the flag the replay ended with.
C34_OnlyCreateAndDeleteFlip ==
    Returned =>
        /\ \A n \in 1..Len(Applied) :
              LET o == Applied[n]
                  before == MapsAfter(n - 1)
                  after == MapsAfter(n)
              IN  /\ FlagsKept(before.entity_map, before.entity_exists_map,
                               after.entity_exists_map, o,
                               "entity", entity_create_ops, entity_delete_ops)
                  /\ FlagsKept(before.relation_map, before.relation_exists_map,
                               after.relation_exists_map, o,
                               "relation", relation_create_ops, relation_delete_ops)
                  /\ IsOp(o, "entity", entity_update_ops) =>
                        PatchedWhileDeleted(before.entity_map, after.entity_map,
                                            before.entity_exists_map,
                                            after.entity_exists_map, o)
                  /\ IsOp(o, "relation", relation_update_ops) =>
                        PatchedWhileDeleted(before.relation_map, after.relation_map,
                                            before.relation_exists_map,
                                            after.relation_exists_map, o)
        /\ \A e \in Range(response.state.entities) :
              e.exists_at_marker =
                  DictGet(MapsAfter(Len(Applied)).entity_exists_map, e.id, TRUE)

\* a read whose replay applied a delete of e1 and then a patch of e1: e1 is
\* listed knighted and not existing
C34_Witness ==
    /\ Returned
    /\ Len(Applied) = 2
    /\ IsOp(Applied[1], "entity", entity_delete_ops)
    /\ IsOp(Applied[2], "entity", entity_update_ops)
    /\ TargetOf(Applied[1]) = "e1" /\ TargetOf(Applied[2]) = "e1"
    /\ \E e \in Range(response.state.entities) :
          e.id = "e1" /\ e.status = "knighted" /\ ~e.exists_at_marker

\* ------------------------------ specification of the endpoints of relations
\* Markers m1 (sort_key 100) and m2 (sort_key 200) stand over the canonical
\* entities e1, e2 and relation r1 of world w1 and entity e3 of world w2; the
\* relations table may also hold r2 of world w1 from e1 to e3.  Relation
\* operations that name e3 as an endpoint, and the entity_patch that makes e3
\* known, are attached to the markers one call at a time; a snapshot whose
\* relation has an endpoint outside its entities has been stored for m1, and
\* the world state is read at m1 and at the present, by replay and from the
\* snapshot.
MaxEndpointOps == 2      \* operations stored at once in this specification

StrayRelation == CanonicalRelation("w1", "r2", "e1", "e3")

CreateStray ==
    [op_type |-> "relation_create", target_kind |-> "relation", target_id |-> "r2",
     payload |-> [source_entity_id |-> "e3", target_entity_id |-> "e1"]]
RepointAlliance ==
    [op_type |-> "relation_patch", target_kind |-> "relation", target_id |-> "r1",
     payload |-> [source_entity_id |-> "e3"]]
RepointByCreate ==
    [op_type |-> "relation_create", target_kind |-> "relation", target_id |-> "r1",
     payload |-> [target_entity_id |-> "e3"]]

EndpointBodies == {PatchCyra, CreateStray, RepointAlliance, RepointByCreate}
EndpointTargets == {"m1", None}

\* a TimelineSnapshotUpsert whose state lists e1 and a relation from e1 to e2
EndpointUpsert ==
    [state_json |->
        [entities |-> <<model_dump_json(
                          [f \in EntityFields |->
                              IF f = "exists_at_marker" THEN TRUE
                              ELSE CanonicalEntity("w1", "e1", "Aldric")[f]])>>,
         relations |-> <<model_dump_json(CanonicalRelation("w1", "r1", "e1", "e2"))>>],
     state_hash |-> None,
     applied_marker_count |-> 1, entity_count |-> 1, relation_count |-> 1]

InitEndpoint ==
    /\ markers = {ReplayMarker("m1", 100, 1), ReplayMarker("m2", 200, 2)}
    /\ operations = {}
    /\ snapshots = UpsertRow(<<>>, "w1", "m1", EndpointUpsert, 3)
    /\ entities = CanonicalEntities \cup {CanonicalEntity("w2", "e3", "Cyra")}
    /\ relations \in {CanonicalRelations, CanonicalRelations \cup {StrayRelation}}
    /\ clock = 4
    /\ response = [call |-> "none", ok |-> TRUE]
    /\ calls = NoCalls

EndpointCreateOperation ==
    \E marker_id \in StoredMarkerIds, body \in EndpointBodies :
        /\ Cardinality(operations) < MaxEndpointOps
        /\ create_operation("w1", marker_id, body, FALSE, UnusedOpId)

EndpointGetWorldState ==
    \E marker_id \in EndpointTargets, use_snapshot \in BOOLEAN :
        read_world_state("w1", marker_id, use_snapshot)

NextEndpoint ==
    \/ EndpointCreateOperation /\ Sequential
    \/ EndpointGetWorldState /\ Sequential

SpecEndpoint == InitEndpoint /\ [][NextEndpoint]_vars

ListedEntityIds == {e.id : e \in Range(response.state.entities)}

\* the read was served from the stored snapshot
ServedFromSnapshot == response.state.note = "Loaded from cached timeline snapshot."

\* C35: every relation a returned world state lists has its source_entity_id
\* and its target_entity_id among the ids of the entities the same state
\* lists; and in a replayed state a relation with no canonical row is listed
\* only when a relation_create of it at or before the target names two listed
\* entities as its endpoints.
C35_EndpointsAreListed ==
    Returned =>
        /\ \A r \in Range(response.state.relations) :
              /\ r.source_entity_id \in ListedEntityIds
              /\ r.target_entity_id \in ListedEntityIds
        /\ ~ServedFromSnapshot =>
              \A r \in Range(response.state.relations) :
                  (\A c \in relations : c.id # r.id) =>
                      \E o \in operations :
                          /\ AtOrBeforeTarget(o)
                          /\ IsOp(o, "relation", relation_create_ops)
                          /\ TargetOf(o) = r.id
                          /\ PayloadGet(o.payload, "source_entity_id") \in ListedEntityIds
                          /\ PayloadGet(o.payload, "target_entity_id") \in ListedEntityIds

\* a replayed state over the canonical relation r2 from e1 to e3 and an applied
\* relation_patch that names e3 as the source of r1: e3 is not listed, r2 is
\* not listed and r1 is listed from e1
C35_Witness ==
    /\ Returned
    /\ ~ServedFromSnapshot
    /\ StrayRelation \in relations
    /\ \E o \in operations :
          /\ AtOrBeforeTarget(o)
          /\ IsOp(o, "relation", relation_update_ops)
          /\ PayloadGet(o.payload, "source_entity_id") = "e3"
    /\ "e3" \notin ListedEntityIds
    /\ \A r \in Range(response.state.relations) : r.id # "r2"
    /\ \E r \in Range(response.state.relations) : r.id = "r1" /\ r.source_entity_id = "e1"

\* --------------------------------- markers that share a sort_key (SpecApply)
\* the marker the last read names
TargetMarker == CHOOSE m \in markers : m.world_id = "w1" /\ m.id = response.marker_id

\* the operations that set the status of entity id and hang on a marker whose
\* sort_key is at most key
SettersUpTo(id, key) ==
    {o \in operations :
        /\ MarkerOf(markers, o).sort_key <= key
        /\ IsEntityOp(o, entity_create_ops \cup entity_update_ops \cup entity_delete_ops)
        /\ EntityOf(o) = id
        /\ "status" \in DOMAIN o.payload}

\* C36: when the marker A a read names shares its sort_key with another marker
\* B, the read at B returns the same entities, relations and
\* applied_marker_count; the count includes both markers; and the status of
\* every listed entity is the one set by the last of the operations of all
\* markers with sort_key at most A's, B's included, in the order of the six
\* sort columns (the markers by created_at, id), although list_markers places
\* A and B at different positions.
C36_TiedMarkersProjectAlike ==
    (Returned /\ Truthy(response.marker_id)) =>
        LET A == TargetMarker
            listed == list_markers(markers, "w1")
        IN  \A B \in markers \ {A} :
                B.sort_key = A.sort_key =>
                    /\ \A ws \in get_world_state(markers, operations, snapshots, entities,
                                                 relations, clock, "w1", B.id, FALSE) :
                          /\ ws.ok
                          /\ ws.entities = response.state.entities
                          /\ ws.relations = response.state.relations
                          /\ ws.applied_marker_count = response.state.applied_marker_count
                    /\ response.state.applied_marker_count =
                          Cardinality({m \in markers : m.sort_key <= A.sort_key})
                    /\ \A e \in Range(response.state.entities) :
                          \A last \in SettersUpTo(e.id, A.sort_key) :
                              (\A o \in SettersUpTo(e.id, A.sort_key) \ {last} :
                                    ColumnsLess(SortColumns(o), SortColumns(last)))
                              => e.status = last.payload["status"]
                    /\ \E i, j \in 1..Len(listed) :
                          i # j /\ listed[i].id = A.id /\ listed[j].id = B.id

\* a read at m2 after m2 and m3, both at sort_key 200, have each been given an
\* operation setting the status of e1: the read reports the status set on m3
C36_Witness ==
    /\ Returned
    /\ response.marker_id = "m2"
    /\ \E a, b \in operations :
          /\ a.marker_id = "m2" /\ b.marker_id = "m3"
          /\ a.payload["status"] # b.payload["status"]
          /\ \E e \in Range(response.state.entities) :
                e.id = "e1" /\ e.status = b.payload["status"]
    /\ response.state.applied_marker_count = 3

\* ------------------------------------------ specification of update_marker
\* Marker m1 (explicit, placed, date_sort_value 100, sort_key 100) carries one
\* entity_patch and marker m2 (semantic, unplaced, sort_key 200) none; no
\* snapshot is stored.  update_marker is called for m1 and the unknown m3
\* with bodies that supply no field, one field or two fields, with and without
\* the rebuild.
MaxUpdateClock == 5    \* no write is made after this time

UpdateMarkerIds == {"m1", "m3"}

\* the non-null fields of the TimelineMarkerUpdate bodies
UpdateBodies ==
    {<<>>,
     [date_sort_value |-> 300],
     [marker_kind |-> "semantic"],
     [marker_kind |-> "Explicit"],
     [placement_status |-> "placed"],
     [sort_key |-> 150],
     [date_sort_value |-> 300, marker_kind |-> "semantic"],
     [marker_kind |-> "era"]}

InitUpdate ==
    /\ markers = {ReplayMarker("m1", 100, 1),
                  [id |-> "m2", world_id |-> "w1", marker_kind |-> "semantic",
                   placement_status |-> "unplaced", date_sort_value |-> NoFloat,
                   sort_key |-> 200, created_at |-> _now(2), updated_at |-> _now(2)]}
    /\ operations = {[id |-> "o1", world_id |-> "w1", marker_id |-> "m1",
                      op_type |-> "entity_patch", target_kind |-> "entity",
                      target_id |-> "e1", payload |-> [status |-> "knighted"],
                      order_index |-> 0, created_at |-> _now(1), updated_at |-> _now(1)]}
    /\ snapshots = <<>>
    /\ entities = CanonicalEntities
    /\ relations = CanonicalRelations
    /\ clock = 3
    /\ response = [call |-> "none", ok |-> TRUE]
    /\ calls = NoCalls

UpdateUpdateMarker ==
    \E marker_id \in UpdateMarkerIds, data \in UpdateBodies, rebuild \in BOOLEAN :
        /\ clock <= MaxUpdateClock
        /\ update_marker("w1", marker_id, data, rebuild)

NextUpdate ==
    \/ UpdateUpdateMarker /\ Sequential

SpecUpdate == InitUpdate /\ [][NextUpdate]_vars

\* the value update_marker stores for a supplied field
StoredField(f, v) ==
    IF f = "marker_kind" THEN _normalize_marker_kind(v)
    ELSE IF f = "placement_status" THEN _normalize_placement_status(v)
    ELSE IF f = "date_sort_value" THEN Float(v)
    ELSE v

MarkerIdsInOrder(mk) ==
    LET listed == list_markers(mk, "w1") IN [i \in 1..Len(listed) |-> listed[i].id]

\* C37: an update_marker call that finds its marker and returns stores, in that
\* marker's row, the supplied fields and updated_at and changes no other field
\* of it, no other marker and no operation: when date_sort_value or marker_kind
\* are supplied and sort_key and placement_status are not, these two and the
\* order of list_markers stay as they were; a call that supplies no field
\* changes no table, the snapshots included, whatever rebuild_snapshots is.
C37_UpdateMarkerFrame ==
    [][\A marker_id \in UpdateMarkerIds, data \in UpdateBodies, rebuild \in BOOLEAN :
          ( /\ MarkerExists(markers, "w1", marker_id)
            /\ update_marker("w1", marker_id, data, rebuild)
            /\ response'.ok )
          => LET old == GetMarkerRow(markers, "w1", marker_id)
             IN  IF DOMAIN data = {}
                 THEN UNCHANGED <<markers, operations, snapshots, clock>>
                 ELSE /\ MarkerExists(markers', "w1", marker_id)
                      /\ LET new == GetMarkerRow(markers', "w1", marker_id)
                         IN  /\ markers' = (markers \ {old}) \cup {new}
                             /\ \A f \in DOMAIN data : new[f] = StoredField(f, data[f])
                             /\ \A f \in DOMAIN old \ (DOMAIN data \cup {"updated_at"}) :
                                   new[f] = old[f]
                             /\ new.updated_at = _now(clock)
                      /\ operations' = operations
                      /\ "sort_key" \notin DOMAIN data =>
                            MarkerIdsInOrder(markers') = MarkerIdsInOrder(markers)
    ]_vars

\* m1 after an update that supplied date_sort_value 300 and marker_kind
\* semantic: it is still placed at sort_key 100
C37_Witness ==
    /\ response.call = "update_marker"
    /\ response.ok
    /\ \E m \in markers :
          /\ m.id = "m1"
          /\ m.date_sort_value = Float(300)
          /\ m.marker_kind = "semantic"
          /\ m.sort_key = 100
          /\ m.placement_status = "placed"
          /\ m.updated_at[2] > m.created_at[2]

\* --------------------------- specification of the calls that find nothing
\* World w1 holds marker m1 with operation o1, world w2 holds marker m2 with
\* operation o2, and no snapshot is stored.  The six mutating calls are made
\* in world w1, each with its default rebuild, naming m1, m2 (of the other
\* world) and the unknown m3, and the operations o1, o2 and the unknown o3.
MaxMissingClock == 5    \* no write is made after this time

MissingMarkerIds == {"m1", "m2", "m3"}
MissingOperationIds == {"o1", "o2", "o3"}
MissingMarkerUpdates == {[sort_key |-> 150], [marker_kind |-> "era"]}
MissingRepositions ==
    {[sort_key |-> 50, placement_status |-> "placed"],
     [sort_key |-> 50, placement_status |-> "somewhere"]}
MissingOperationUpdates == {[payload |-> [status |-> "exiled"]], [target_kind |-> "realm"]}
MissingBodies ==
    {PatchKnighted,
     [op_type |-> "entity_patch", target_kind |-> "realm", target_id |-> "e1"]}

MissingOperation(w, id, marker_id, t) ==
    [id |-> id, world_id |-> w, marker_id |-> marker_id,
     op_type |-> "entity_patch", target_kind |-> "entity",
     target_id |-> "e1", payload |-> [status |-> "knighted"],
     order_index |-> 0, created_at |-> _now(t), updated_at |-> _now(t)]

InitMissing ==
    /\ markers = {ReplayMarker("m1", 100, 1),
                  [ReplayMarker("m2", 200, 2) EXCEPT !.world_id = "w2"]}
    /\ operations = {MissingOperation("w1", "o1", "m1", 1),
                     MissingOperation("w2", "o2", "m2", 2)}
    /\ snapshots = <<>>
    /\ entities = CanonicalEntities
    /\ relations = CanonicalRelations
    /\ clock = 3
    /\ response = [call |-> "none", ok |-> TRUE]
    /\ calls = NoCalls

MissingUpdateMarker ==
    \E marker_id \in MissingMarkerIds, data \in MissingMarkerUpdates :
        /\ clock <= MaxMissingClock
        /\ update_marker("w1", marker_id, data, TRUE)

MissingRepositionMarker ==
    \E marker_id \in MissingMarkerIds, data \in MissingRepositions :
        /\ clock <= MaxMissingClock
        /\ reposition_marker("w1", marker_id, data, TRUE)

MissingDeleteMarker ==
    \E marker_id \in MissingMarkerIds :
        /\ clock <= MaxMissingClock
        /\ delete_marker("w1", marker_id, TRUE)

MissingCreateOperation ==
    \E marker_id \in MissingMarkerIds, body \in MissingBodies :
        /\ clock <= MaxMissingClock
        /\ \E id \in MissingOperationIds : \A o \in operations : o.id # id
        /\ create_operation("w1", marker_id, body, TRUE,
               CHOOSE id \in MissingOperationIds : \A o \in operations : o.id # id)

MissingUpdateOperation ==
    \E marker_id \in MissingMarkerIds, operation_id \in MissingOperationIds,
       data \in MissingOperationUpdates :
        /\ clock <= MaxMissingClock
        /\ update_operation("w1", marker_id, operation_id, data, TRUE)

MissingDeleteOperation ==
    \E marker_id \in MissingMarkerIds, operation_id \in MissingOperationIds :
        /\ clock <= MaxMissingClock
        /\ delete_operation("w1", marker_id, operation_id, TRUE)

NextMissing ==
    \/ MissingUpdateMarker /\ Sequential
    \/ MissingRepositionMarker /\ Sequential
    \/ MissingDeleteMarker /\ Sequential
    \/ MissingCreateOperation /\ Sequential
    \/ MissingUpdateOperation /\ Sequential
    \/ MissingDeleteOperation /\ Sequential

SpecMissing == InitMissing /\ [][NextMissing]_vars

\* the call returned its not-found value and wrote nothing
NotFound(field, value) ==
    /\ response'.ok
    /\ response'[field] = value
    /\ UNCHANGED <<markers, operations, snapshots, clock>>

\* C38: each of the six mutating calls, made for a marker that is not in the
\* world or for an operation that is not on the named marker in the world,
\* returns None (update_marker, reposition_marker, create_operation,
\* update_operation) or False (delete_marker, delete_operation) and leaves the
\* markers, operations and snapshots tables as they were.
C38_NotFoundWritesNothing ==
    [][/\ \A marker_id \in MissingMarkerIds :
             ~MarkerExists(markers, "w1", marker_id) =>
                /\ \A data \in MissingMarkerUpdates :
                      update_marker("w1", marker_id, data, TRUE) => NotFound("marker", NoRow)
                /\ \A data \in MissingRepositions :
                      reposition_marker("w1", marker_id, data, TRUE)
                          => NotFound("marker", NoRow)
                /\ delete_marker("w1", marker_id, TRUE) => NotFound("deleted", FALSE)
                /\ \A body \in MissingBodies :
                      create_operation("w1", marker_id, body, TRUE, "o3")
                          => NotFound("operation", NoRow)
       /\ \A marker_id \in MissingMarkerIds, operation_id \in MissingOperationIds :
             ~OperationExists(operations, "w1", marker_id, operation_id) =>
                /\ \A data \in MissingOperationUpdates :
                      update_operation("w1", marker_id, operation_id, data, TRUE)
                          => NotFound("operation", NoRow)
                /\ delete_operation("w1", marker_id, operation_id, TRUE)
                      => NotFound("deleted", FALSE)
    ]_vars

\* ------------------------------- specification of the placement of markers
\* Markers are created, without embedded operations, from bodies that combine
\* the two marker kinds with a requested placement_status and with or without
\* a sort_key.
MaxPlacementMarkers == 3    \* markers stored at once in this specification

PlacementBodies ==
    {[marker_kind |-> "semantic"],
     [marker_kind |-> "semantic", placement_status |-> "placed"],
     [marker_kind |-> "semantic", placement_status |-> "placed", sort_key |-> Float(150)],
     [marker_kind |-> "semantic", placement_status |-> "unplaced", sort_key |-> Float(150)],
     [marker_kind |-> "semantic", placement_status |-> "placed", sort_key |-> Float(0)],
     [marker_kind |-> "explicit", placement_status |-> "placed", date_sort_value |-> Float(100)],
     [marker_kind |-> "explicit", placement_status |-> "unplaced"]}

PlacementCreateMarker ==
    \E body \in PlacementBodies :
        /\ Cardinality(markers) < MaxPlacementMarkers
        /\ create_marker("w1", body, FALSE, UnusedMarkerId, <<>>)

NextPlacement ==
    \/ PlacementCreateMarker /\ Sequential

SpecPlacement == InitEmbedded /\ [][NextPlacement]_vars

\* C39: the marker a create_marker call stores and returns has
\* placement_status unplaced when the request is for a semantic marker and
\* gives no sort_key, whatever status it asks for, and has the requested
\* placement_status in every other case.
C39_UnplacedWhenSemanticUnkeyed ==
    (response.call = "create_marker" /\ response.ok) =>
        LET data == TimelineMarkerCreate(response.body)
            forced == normalize_type(data.marker_kind) = "semantic" /\ data.sort_key = NoFloat
            expected == IF forced THEN "unplaced" ELSE normalize_type(data.placement_status)
        IN  /\ response.marker.placement_status = expected
            /\ \E m \in markers : m.id = response.marker.id /\ m.placement_status = expected

\* a semantic marker requested as placed without a sort_key was stored unplaced
C39_Witness ==
    /\ response.call = "create_marker"
    /\ response.ok
    /\ response.body = [marker_kind |-> "semantic", placement_status |-> "placed"]
    /\ response.marker.placement_status = "unplaced"

\* ------------------------ specification of the op_type of the AI write path
\* services/lore_notes.py: _canonical_ai_op_type is applied to one extracted
\* change.  The raw op_type is None, the empty string, "Entity Patch", or up
\* to MaxOpWords words joined by underscores; the target kind is one of the
\* three valid kinds; the payload may carry a status or a summary.
MaxOpWords == 2    \* words in a raw op_type

GENERIC_PATCH_ALIASES == {"patch", "update", "modify", "edit", "operation_patch"}
GENERIC_CREATE_ALIASES == {"create", "add", "insert", "spawn", "introduce"}
GENERIC_DELETE_ALIASES == {"delete", "remove", "erase", "destroy", "eliminate", "kill", "die"}
ENTITY_DELETE_HINTS ==
    {"died", "dead", "deceased", "perished", "killed", "slain", "executed",
     "assassinated", "murdered", "destroyed", "was killed", "has died"}
SUPPORTED_ENTITY_OPS == {"entity_create", "entity_patch", "entity_delete"}
SUPPORTED_RELATION_OPS == {"relation_create", "relation_patch", "relation_delete"}
SUPPORTED_WORLD_OPS == {"world_patch"}

\* str.endswith, str.replace (every occurrence, left to right), the part
\* before the last underscore (rsplit("_", 1)[0]), str.lower over the letters
\* the inputs use, and `token in text`
EndsWith(s, suffix) ==
    Len(s) >= Len(suffix) /\ SubSeq(s, Len(s) - Len(suffix) + 1, Len(s)) = suffix
RECURSIVE StrReplace(_, _, _)
StrReplace(s, old, new) ==
    IF Len(s) < Len(old) THEN s
    ELSE IF SubSeq(s, 1, Len(old)) = old
    THEN new \o StrReplace(SubSeq(s, Len(old) + 1, Len(s)), old, new)
    ELSE SubSeq(s, 1, 1) \o StrReplace(SubSeq(s, 2, Len(s)), old, new)
RSplitHead(s) ==
    LET at == {i \in 1..Len(s) : SubSeq(s, i, i) = "_"}
    IN  IF at = {} THEN s
        ELSE SubSeq(s, 1, (CHOOSE i \in at : \A j \in at : j <= i) - 1)
LowerChar(c) ==
    CASE c = "D" -> "d"
      [] c = "S" -> "s"
      [] OTHER -> c
RECURSIVE StrLower(_)
StrLower(s) ==
    IF s = "" THEN "" ELSE LowerChar(SubSeq(s, 1, 1)) \o StrLower(SubSeq(s, 2, Len(s)))
StrContains(text, token) ==
    \E i \in 1..(Len(text) - Len(token) + 1) : SubSeq(text, i, i + Len(token) - 1) = token

_default_patch_op(target_kind) ==
    IF target_kind = "world" THEN "world_patch" ELSE target_kind \o "_patch"
_default_create_op(target_kind) ==
    IF target_kind = "world" THEN "world_patch" ELSE target_kind \o "_create"
_default_delete_op(target_kind) ==
    IF target_kind = "world" THEN "world_patch" ELSE target_kind \o "_delete"

_is_supported_for_target(target_kind, op_type) ==
    IF target_kind = "entity" THEN op_type \in SUPPORTED_ENTITY_OPS
    ELSE IF target_kind = "relation" THEN op_type \in SUPPORTED_RELATION_OPS
    ELSE op_type \in SUPPORTED_WORLD_OPS

_contains_entity_delete_hint(text) ==
    \E token \in ENTITY_DELETE_HINTS : StrContains(StrLower(text), token)

\* str(value or "")
StrOr(v) == IF Truthy(v) THEN v ELSE ""

\* the op_type before the final test of _canonical_ai_op_type
AliasedOpType(raw_op_type, target_kind, payload, marker_title, marker_summary) ==
    LET given == normalize_type(StrOr(raw_op_type))
        normalized == IF given = "" THEN _default_patch_op(target_kind) ELSE given
        aliased ==
            IF normalized \in GENERIC_PATCH_ALIASES THEN _default_patch_op(target_kind)
            ELSE IF normalized \in GENERIC_CREATE_ALIASES THEN _default_create_op(target_kind)
            ELSE IF normalized \in GENERIC_DELETE_ALIASES THEN _default_delete_op(target_kind)
            ELSE IF EndsWith(normalized, "_add")
            THEN StrReplace(normalized, "_add", "_create")
            ELSE IF EndsWith(normalized, "_update") \/ EndsWith(normalized, "_modify")
            THEN RSplitHead(normalized) \o "_patch"
            ELSE IF EndsWith(normalized, "_remove")
            THEN RSplitHead(normalized) \o "_delete"
            ELSE normalized
        signal_text == StrOr(marker_title) \o " " \o StrOr(marker_summary) \o " "
                       \o StrOr(PayloadGet(payload, "status")) \o " "
                       \o StrOr(PayloadGet(payload, "state")) \o " "
                       \o StrOr(PayloadGet(payload, "summary")) \o " "
                       \o StrOr(PayloadGet(payload, "context"))
    IN  IF target_kind = "entity" /\ aliased = "entity_patch"
           /\ _contains_entity_delete_hint(signal_text)
        THEN "entity_delete"
        ELSE aliased

\* _canonical_ai_op_type without its final test of _is_supported_for_target
_canonical_ai_op_type_Unchecked(raw_op_type, target_kind, payload, marker_title, marker_summary) ==
    AliasedOpType(raw_op_type, target_kind, payload, marker_title, marker_summary)

_canonical_ai_op_type(raw_op_type, target_kind, payload, marker_title, marker_summary) ==
    LET normalized == AliasedOpType(raw_op_type, target_kind, payload,
                                    marker_title, marker_summary)
    IN  IF ~_is_supported_for_target(target_kind, normalized)
        THEN _default_patch_op(target_kind)
        ELSE normalized

OpWords ==
    {"entity", "relation", "world", "patch", "create", "delete",
     "add", "update", "modify", "remove", "kill", "address"}
RECURSIVE RawStrings(_)
RawStrings(n) ==
    IF n = 1 THEN OpWords
    ELSE RawStrings(n - 1) \cup {s \o "_" \o w : s \in RawStrings(n - 1), w \in OpWords}
RawOpTypes == {None, "", "Entity Patch"} \cup RawStrings(MaxOpWords)
ChangePayloads == {<<>>, [status |-> "active"], [status |-> "Deceased"],
                   [summary |-> "Slain at the ford"]}

InitCanonical ==
    /\ markers = {}
    /\ operations = {}
    /\ snapshots = <<>>
    /\ entities = {}
    /\ relations = {}
    /\ clock = 0
    /\ response \in {[call |-> "none", ok |-> TRUE, raw_op_type |-> raw,
                      target_kind |-> kind, payload |-> payload] :
                        raw \in RawOpTypes, kind \in VALID_TARGET_KINDS,
                        payload \in ChangePayloads}
    /\ calls = NoCalls

Canonicalize ==
    /\ response.call = "none"
    /\ response' = [call |-> "_canonical_ai_op_type", ok |-> TRUE,
                    raw_op_type |-> response.raw_op_type,
                    target_kind |-> response.target_kind,
                    payload |-> response.payload,
                    op_type |-> _canonical_ai_op_type(
                                    response.raw_op_type, response.target_kind,
                                    response.payload, None, None)]
    /\ UNCHANGED <<markers, operations, snapshots, entities, relations, clock>>

NextCanonical ==
    \/ Canonicalize /\ Sequential

SpecCanonical == InitCanonical /\ [][NextCanonical]_vars

\* C40: whatever the raw op_type, the op_type _canonical_ai_op_type returns
\* for an entity change is entity_create, entity_patch or entity_delete, for a
\* relation change relation_create, relation_patch or relation_delete, and
\* for a world change world_patch.
C40_CanonicalOpTypeSupported ==
    response.call = "_canonical_ai_op_type" =>
        LET op_type == response.op_type
        IN  /\ response.target_kind = "entity" =>
                  op_type \in {"entity_create", "entity_patch", "entity_delete"}
            /\ response.target_kind = "relation" =>
                  op_type \in {"relation_create", "relation_patch", "relation_delete"}
            /\ response.target_kind = "world" => op_type = "world_patch"
            /\ _is_supported_for_target(response.target_kind, op_type)

\* the raw op_type relation_add of an entity change: its alias relation_create
\* is not an entity verb and entity_patch was returned
C40_Witness ==
    /\ response.call = "_canonical_ai_op_type"
    /\ response.raw_op_type = "relation_add"
    /\ response.target_kind = "entity"
    /\ response.op_type = "entity_patch"

====
